---- MODULE Spec2Model ----
(***************************************************************************)
(* A model of host/lib/write_firmware.py: one invocation of                *)
(* DoWriteFirmware (or one direct call of _WaitForUSBDevice), with every   *)
(* external command (bct_dump, nvflash, dut-control, lsusb, smdk-usbdl)    *)
(* free to succeed or to fail with any of its modelled messages.           *)
(*                                                                         *)
(* trace is the ordered log of everything the invocation does that can be  *)
(* observed from outside: commands run, sleeps, operator output, the       *)
(* flasher file written, exceptions raised and values returned.            *)
(***************************************************************************)
EXTENDS Integers, Sequences, FiniteSets, TLC

VARIABLES
  entry,          \* which function the caller invokes
  dest,           \* DoWriteFirmware's dest argument
  method,         \* the fdt's /chromeos-config flash-method
  stdout_is_tty,  \* output.stdout_is_tty
  addr_len,       \* len('%08x' % load_address) in PrepareFlasher
  matches,        \* occurrences of the placeholder in the serialized fdt
  timeout,        \* timeout argument of a direct _WaitForUSBDevice call
  pc,             \* position in the code
  trace,          \* observable events so far
  boot_type,      \* boot type pulled from the BCT dump
  flasher,        \* TRUE once flasher-for-image.bin has been written
  tries,          \* iterations of the nvflash loop completed
  last_err,       \* _NvidiaFlashImage's last_err
  nv_errs,        \* the failure text of each failed nvflash attempt, in order
  stage,          \* index into download_list of the current item
  first,          \* _ExynosFlashImage's first
  pending,        \* exception raised inside the try block, awaiting finally
  w_caller,       \* who called _WaitForUSBDevice
  w_timeout,      \* its timeout argument
  w_tries,        \* its loop index: failed cycles so far
  w_queries,      \* lsusb queries issued by the current call
  w_result,       \* "none" while running, then "found" or "timeout"
  last_lsusb,     \* outcome of the latest lsusb query
  ok,             \* the board path's return value: "none", "True", "False"
  error,          \* the exception that left the invoked function, or "none"
  call,           \* the latest direct call of a function, with what it gave
  dirs,           \* common_util: the tag directories that exist
  locks,          \* common_util: the tag directories that hold a lock file
  procs           \* common_util: each concurrent caller's position and locals

inputs == <<entry, dest, method, stdout_is_tty, addr_len, matches, timeout>>
nvidia == <<boot_type, tries, last_err, nv_errs>>
exynos == <<stage, first, pending>>
wait   == <<w_caller, w_timeout, w_tries, w_queries, w_result, last_lsusb>>
aux    == <<call, dirs, locks, procs>>
vars   == <<inputs, pc, trace, flasher, nvidia, exynos, wait, ok, error, aux>>

----------------------------------------------------------------------------
(* Bounds and program constants *)

\* Largest timeout tried in a direct call of _WaitForUSBDevice.
MaxTimeout == 5

\* for tries in range(10)
MutNvTries == 10 + 1
NvTries == 10

\* self._WaitForUSBDevice('exynos', vendor_id, product_id, 4)
ExynosProbeTimeout == 4

\* replace_me = 'zsHEXYla'
PlaceholderLen == 8

----------------------------------------------------------------------------
(* Events *)

Ev(k, a, x, r) == [k |-> k, a |-> a, x |-> x, r |-> r]

\* tools.Run(cmd, args): r is "ok" or "fail" (a CmdError was raised)
Run(cmd, arg, r) == Ev("run", cmd, arg, r)
Sleep(secs)      == Ev("sleep", secs, "", "")
Notice(msg)      == Ev("notice", msg, "", "")
Progress(msg)    == Ev("progress", msg, "", "")
WriteFile(name)  == Ev("write", name, "", "")
Raise(type, msg) == Ev("raise", type, msg, "")
Return(fn, val)  == Ev("return", fn, val, "")

----------------------------------------------------------------------------
(* Inputs *)

Dests   == {"usb", "sd", "None", "nand"}
Methods == {"tegra", "exynos", "omap"}
BootTypes == {"nand", "sdmmc", "spi"}

\* Failure texts of nvflash; the first two contain 'USB device not found'.
UsbNotFoundA == "USB device not found"
UsbNotFoundB == "nvflash: USB device not found (again)"
NvOtherError == "nvflash: BCT file is invalid"
NvflashErrors == {UsbNotFoundA, UsbNotFoundB, NvOtherError}

\* Failure texts of lsusb: the device is absent, or lsusb itself failed.
LsusbErrors == {"lsusb: exit status 1", "lsusb: unable to initialize libusb"}

\* 'USB device not found' in err
MutIsTransient(err) == TRUE
IsTransient(err) == err \in {UsbNotFoundA, UsbNotFoundB}

\* err != last_err
MutShouldNotice(err, last) == TRUE
ShouldNotice(err, last) == err # last

\* method = fdt.GetString(...); the branch of DoWriteFirmware taken
MutRoute(d, m) ==
  IF d = "usb" \/ d = "sd" THEN
    IF m = "tegra" THEN "nvidia"
    ELSE IF m = "exynos" THEN "exynos"
    ELSE "unknown method"
  ELSE "unknown destination"
Route(d, m) ==
  IF d = "usb" THEN
    IF m = "tegra" THEN "nvidia"
    ELSE IF m = "exynos" THEN "exynos"
    ELSE "unknown method"
  ELSE IF d = "sd" THEN "noop"
  ELSE "unknown destination"

\* the first step of the board path chosen: _NvidiaFlashImage starts with
\* bct_dump, _ExynosFlashImage with PrepareFlasher
MutEntryOf(route) == IF route = "nvidia" THEN "nv_bct" ELSE "ex_reset"
EntryOf(route) == IF route = "nvidia" THEN "nv_bct" ELSE "prepare"

\* if ok: ... else: raise CmdError('Image upload failed ...')
MutAccepted(okv) == TRUE
Accepted(okv) == okv = "True"

\* for tries in range(timeout * 2)
MutProbeCycles(t) == t * 2 - 1
ProbeCycles(t) == t * 2

\* download_list: the stage names, in order
MutDownloadList == <<"bl2", "bl1", "u-boot">>
DownloadList == <<"bl1", "bl2", "u-boot">>

\* the message of the CmdError raised when the probe before an item fails
MutStageError(f, name) == "Could not find Exynos board on USB port"
StageError(f, name) ==
  IF f THEN "Could not find Exynos board on USB port"
  ELSE IF name = "bl1" THEN "Stage 'bl1' did not complete"
  ELSE IF name = "bl2" THEN "Stage 'bl2' did not complete"
  ELSE "Stage 'u-boot' did not complete"

\* try: ... finally: the release runs whatever exception is pending
MutRunsRelease(p) == p = "none"
RunsRelease(p) == TRUE

\* where _WaitForUSBDevice returns to
MutAfterWait(caller) == IF caller = "exynos" THEN "ex_item" ELSE "done"
AfterWait(caller) == IF caller = "exynos" THEN "ex_probed" ELSE "done"

----------------------------------------------------------------------------
(* Initial states: the arguments and the environment of one invocation *)

\* no function has been called directly, no tag directory exists
NoCall == [fn |-> "none"]
\* the processes that call AcquireLock and ReleaseLock concurrently
NumProcs == 3
Procs == 1..NumProcs
\* a process outside both functions that holds no lock
IdleProc == [at |-> "idle", is_created |-> FALSE, holds |-> FALSE]
InitAux ==
  /\ call = NoCall
  /\ dirs = {}
  /\ locks = {}
  /\ procs = [p \in Procs |-> IdleProc]

Init ==
  /\ InitAux
  /\ \/ /\ entry = "DoWriteFirmware"
        /\ dest \in Dests
        /\ method \in Methods
        /\ stdout_is_tty \in BOOLEAN
        /\ addr_len \in {PlaceholderLen, PlaceholderLen + 1}
        /\ matches \in 0..2
        /\ timeout = 0
     \/ /\ entry = "_WaitForUSBDevice"
        /\ dest = "None"
        /\ method = "exynos"
        /\ stdout_is_tty = TRUE
        /\ addr_len = PlaceholderLen
        /\ matches = 1
        /\ timeout \in 0..MaxTimeout
  /\ pc = "start"
  /\ trace = <<>>
  /\ boot_type = "none"
  /\ flasher = FALSE
  /\ tries = 0
  /\ last_err = "None"
  /\ nv_errs = <<>>
  /\ stage = 1
  /\ first = TRUE
  /\ pending = "none"
  /\ w_caller = "none"
  /\ w_timeout = 0
  /\ w_tries = 0
  /\ w_queries = 0
  /\ w_result = "none"
  /\ last_lsusb = "none"
  /\ ok = "none"
  /\ error = "none"

----------------------------------------------------------------------------
(* DoWriteFirmware *)

\* An exception of the given type and message leaves the invoked function.
Fatal(type, msg) ==
  /\ trace' = Append(trace, Raise(type, msg))
  /\ error' = msg
  /\ pc' = "done"

DoWriteFirmware ==
  /\ pc = "start"
  /\ entry = "DoWriteFirmware"
  /\ LET route == Route(dest, method) IN
       IF route = "nvidia" \/ route = "exynos" THEN
         /\ pc' = EntryOf(route)
         /\ UNCHANGED <<trace, error>>
       ELSE IF route = "unknown method" THEN
         Fatal("CmdError", "Unknown flash method")
       ELSE IF route = "noop" THEN
         /\ pc' = "done"
         /\ trace' = Append(trace, Return("DoWriteFirmware", "None"))
         /\ UNCHANGED error
       ELSE
         Fatal("CmdError", "Unknown destination device")
  /\ UNCHANGED <<aux, inputs, flasher, nvidia, exynos, wait, ok>>

\* The board path has returned ok to DoWriteFirmware.
DoWriteFirmwareResult ==
  /\ pc = "dw_result"
  /\ IF Accepted(ok) THEN
       /\ trace' = trace \o <<Progress("Image uploaded"),
                              Return("DoWriteFirmware", "None")>>
       /\ pc' = "done"
       /\ UNCHANGED error
     ELSE
       Fatal("CmdError", "Image upload failed")
  /\ UNCHANGED <<aux, inputs, flasher, nvidia, exynos, wait, ok>>

----------------------------------------------------------------------------
(* PrepareFlasher *)

PrepareFlasher ==
  /\ pc = "prepare"
  /\ IF addr_len # PlaceholderLen THEN
       /\ Fatal("ValueError", "replacement string length does not match")
       /\ UNCHANGED flasher
     ELSE IF matches # 1 THEN
       \* building the ValueError's message reads the undefined name matches
       /\ Fatal("NameError", "global name 'matches' is not defined")
       /\ UNCHANGED flasher
     ELSE
       /\ flasher' = TRUE
       /\ trace' = trace \o <<WriteFile("flasher-for-image.bin"),
                              Notice("Payload checksum")>>
       /\ pc' = IF method = "tegra" THEN "nv_flash" ELSE "ex_reset"
       /\ UNCHANGED error
  /\ UNCHANGED <<aux, inputs, nvidia, exynos, wait, ok>>

----------------------------------------------------------------------------
(* _NvidiaFlashImage *)

\* bct_dump is run and the boot type is pulled from its output.
NvidiaBctDump ==
  /\ pc = "nv_bct"
  /\ \E r \in {"ok", "fail", "no DevType line"} :
       IF r = "ok" THEN
         /\ \E b \in BootTypes : boot_type' = b
         /\ trace' = Append(trace, Run("bct_dump", "bct", "ok"))
         /\ pc' = "prepare"
         /\ UNCHANGED error
       ELSE IF r = "fail" THEN
         /\ trace' = trace \o <<Run("bct_dump", "bct", "fail"),
                                Raise("CmdError", "bct_dump failed")>>
         /\ error' = "bct_dump failed"
         /\ pc' = "done"
         /\ UNCHANGED boot_type
       ELSE
         /\ trace' = trace \o <<Run("bct_dump", "bct", "ok"),
                                Raise("IndexError", "list index out of range")>>
         /\ error' = "list index out of range"
         /\ pc' = "done"
         /\ UNCHANGED boot_type
  /\ UNCHANGED <<aux, inputs, flasher, tries, last_err, nv_errs, exynos, wait, ok>>

\* One iteration of the loop over range(10), with the return that follows
\* the last one.
NvidiaAttempt ==
  /\ pc = "nv_flash"
  /\ tries < NvTries
  /\ \E r \in {"ok"} \cup NvflashErrors :
       IF r = "ok" THEN
         /\ trace' = trace \o <<Run("nvflash", "flasher", "ok"),
                                Notice("Flasher downloaded"),
                                Return("_NvidiaFlashImage", "True")>>
         /\ ok' = "True"
         /\ pc' = "dw_result"
         /\ UNCHANGED <<tries, last_err, nv_errs, error>>
       ELSE IF ~stdout_is_tty THEN
         /\ trace' = trace \o <<Run("nvflash", "flasher", "fail"),
                                Return("_NvidiaFlashImage", "False")>>
         /\ nv_errs' = Append(nv_errs, r)
         /\ ok' = "False"
         /\ pc' = "dw_result"
         /\ UNCHANGED <<tries, last_err, error>>
       ELSE IF ~IsTransient(r) THEN
         /\ trace' = trace \o <<Run("nvflash", "flasher", "fail"),
                                Raise("CmdError", "nvflash failed")>>
         /\ nv_errs' = Append(nv_errs, r)
         /\ error' = "nvflash failed"
         /\ pc' = "done"
         /\ UNCHANGED <<tries, last_err, ok>>
       ELSE
         /\ trace' = trace
              \o <<Run("nvflash", "flasher", "fail")>>
              \o (IF ShouldNotice(r, last_err)
                  THEN <<Notice(r), Progress("Please connect USB A-A cable")>>
                  ELSE <<>>)
              \o <<Sleep("1")>>
              \o (IF tries + 1 = NvTries
                  THEN <<Return("_NvidiaFlashImage", "False")>>
                  ELSE <<>>)
         /\ nv_errs' = Append(nv_errs, r)
         /\ last_err' = r
         /\ tries' = tries + 1
         /\ ok' = IF tries + 1 = NvTries THEN "False" ELSE ok
         /\ pc' = IF tries + 1 = NvTries THEN "dw_result" ELSE pc
         /\ UNCHANGED error
  /\ UNCHANGED <<aux, inputs, flasher, boot_type, exynos, wait>>

----------------------------------------------------------------------------
(* _WaitForUSBDevice *)

\* The function is entered: the loop over range(timeout * 2) starts, or is
\* empty and the function returns False at once.
WaitCall(caller, t) ==
  /\ w_caller' = caller
  /\ w_timeout' = t
  /\ w_tries' = 0
  /\ w_queries' = 0
  /\ last_lsusb' = "none"
  /\ IF ProbeCycles(t) <= 0 THEN
       /\ w_result' = "timeout"
       /\ trace' = trace \o <<Progress("Waiting for board to appear on USB bus"),
                              Return("_WaitForUSBDevice", "False")>>
       /\ pc' = AfterWait(caller)
     ELSE
       /\ w_result' = "none"
       /\ trace' = Append(trace, Progress("Waiting for board to appear on USB bus"))
       /\ pc' = "wait"

\* A direct call of the method.
CallWaitForUSBDevice ==
  /\ pc = "start"
  /\ entry = "_WaitForUSBDevice"
  /\ WaitCall("caller", timeout)
  /\ UNCHANGED <<aux, inputs, flasher, nvidia, exynos, ok, error>>

\* One cycle of the loop: one lsusb query, then the return or the sleep.
WaitForUSBDevice ==
  /\ pc = "wait"
  /\ \E r \in {"ok"} \cup LsusbErrors :
       /\ last_lsusb' = r
       /\ w_queries' = w_queries + 1
       /\ IF r = "ok" THEN
            /\ trace' = trace \o <<Run("lsusb", "04e8:1234", "ok"),
                                   Progress("Found board"),
                                   Return("_WaitForUSBDevice", "True")>>
            /\ w_result' = "found"
            /\ pc' = AfterWait(w_caller)
            /\ UNCHANGED w_tries
          ELSE
            /\ w_tries' = w_tries + 1
            /\ IF w_tries + 1 >= ProbeCycles(w_timeout) THEN
                 /\ trace' = trace \o <<Run("lsusb", "04e8:1234", "fail"),
                                        Sleep("0.5"),
                                        Return("_WaitForUSBDevice", "False")>>
                 /\ w_result' = "timeout"
                 /\ pc' = AfterWait(w_caller)
               ELSE
                 /\ trace' = trace \o <<Run("lsusb", "04e8:1234", "fail"),
                                        Sleep("0.5")>>
                 /\ UNCHANGED <<w_result, pc>>
  /\ UNCHANGED <<aux, inputs, flasher, nvidia, exynos, w_caller, w_timeout, ok, error>>

----------------------------------------------------------------------------
(* _ExynosFlashImage *)

\* The servo reset, then the settling sleep.
ExynosReset ==
  /\ pc = "ex_reset"
  /\ \E r \in {"ok", "fail"} :
       IF r = "ok" THEN
         /\ trace' = trace \o <<Progress("Reseting board via servo"),
                                Run("dut-control", "reset", "ok"),
                                Sleep("2"),
                                Progress("Uploading flasher image")>>
         /\ pc' = "ex_item"
         /\ UNCHANGED error
       ELSE
         /\ trace' = trace \o <<Progress("Reseting board via servo"),
                                Run("dut-control", "reset", "fail"),
                                Raise("CmdError", "dut-control failed")>>
         /\ error' = "dut-control failed"
         /\ pc' = "done"
  /\ stage' = 1
  /\ first' = TRUE
  /\ UNCHANGED <<aux, inputs, flasher, nvidia, pending, wait, ok>>

\* for item in download_list: the probe before the item is started.
ExynosProbe ==
  /\ pc = "ex_item"
  /\ WaitCall("exynos", ExynosProbeTimeout)
  /\ UNCHANGED <<aux, inputs, flasher, nvidia, exynos, ok, error>>

\* The rest of the loop body, once the probe has returned.
ExynosStage ==
  /\ pc = "ex_probed"
  /\ LET name == DownloadList[stage] IN
       IF w_result # "found" THEN
         /\ pending' = StageError(first, name)
         /\ trace' = Append(trace, Raise("CmdError", StageError(first, name)))
         /\ pc' = "ex_finally"
         /\ UNCHANGED <<stage, first>>
       ELSE
         \E r \in {"ok", "fail"} :
           /\ first' = FALSE
           /\ IF r = "ok" THEN
                /\ trace' = trace \o <<Notice(name),
                                       Progress("Uploading stage"),
                                       Sleep("1"),
                                       Run("smdk-usbdl", name, "ok")>>
                /\ stage' = IF stage < Len(DownloadList) THEN stage + 1 ELSE stage
                /\ pc' = IF stage < Len(DownloadList) THEN "ex_item" ELSE "ex_finally"
                /\ UNCHANGED pending
              ELSE
                /\ trace' = trace \o <<Notice(name),
                                       Progress("Uploading stage"),
                                       Sleep("1"),
                                       Run("smdk-usbdl", name, "fail"),
                                       Raise("CmdError", "smdk-usbdl failed")>>
                /\ pending' = "smdk-usbdl failed"
                /\ pc' = "ex_finally"
                /\ UNCHANGED stage
  /\ UNCHANGED <<aux, inputs, flasher, nvidia, wait, ok, error>>

\* finally: the release of the control lines, then the return or the
\* propagation of the pending exception.
ExynosFinally ==
  /\ pc = "ex_finally"
  /\ IF RunsRelease(pending) THEN
       \E r \in {"ok", "fail"} :
         IF r = "fail" THEN
           \* the release's own CmdError replaces whatever was pending
           /\ trace' = trace \o <<Run("dut-control", "release", "fail"),
                                  Raise("CmdError", "dut-control failed")>>
           /\ error' = "dut-control failed"
           /\ pc' = "done"
           /\ UNCHANGED ok
         ELSE IF pending # "none" THEN
           /\ trace' = Append(trace, Run("dut-control", "release", "ok"))
           /\ error' = pending
           /\ pc' = "done"
           /\ UNCHANGED ok
         ELSE
           /\ trace' = trace \o <<Run("dut-control", "release", "ok"),
                                  Notice("Flasher downloaded"),
                                  Return("_ExynosFlashImage", "True")>>
           /\ ok' = "True"
           /\ pc' = "dw_result"
           /\ UNCHANGED error
     ELSE
       /\ error' = pending
       /\ pc' = "done"
       /\ UNCHANGED <<trace, ok>>
  /\ UNCHANGED <<aux, inputs, flasher, nvidia, exynos, wait>>

----------------------------------------------------------------------------
(* The specification *)

Next ==
  \/ DoWriteFirmware
  \/ DoWriteFirmwareResult
  \/ PrepareFlasher
  \/ NvidiaBctDump
  \/ NvidiaAttempt
  \/ CallWaitForUSBDevice
  \/ WaitForUSBDevice
  \/ ExynosReset
  \/ ExynosProbe
  \/ ExynosStage
  \/ ExynosFinally

Spec == Init /\ [][Next]_vars

\* The session is one sequential thread: while a step is enabled the next
\* statement is executed, every external command being taken to return.
SpecLive == Spec /\ WF_vars(Next)

----------------------------------------------------------------------------
(* Reading the trace *)

Max(S) == CHOOSE m \in S : \A n \in S : n <= m
Min(S) == CHOOSE m \in S : \A n \in S : m <= n

\* the places in the trace where the command was run
RunsOf(cmd) == {i \in DOMAIN trace : trace[i].k = "run" /\ trace[i].a = cmd}
AllRuns == {i \in DOMAIN trace : trace[i].k = "run"}
Releases == {i \in RunsOf("dut-control") : trace[i].x = "release"}
Resets == {i \in RunsOf("dut-control") : trace[i].x = "reset"}
HardwareRuns ==
  RunsOf("nvflash") \cup RunsOf("dut-control") \cup RunsOf("lsusb")
    \cup RunsOf("smdk-usbdl")
Raised(msg) == {i \in DOMAIN trace : trace[i].k = "raise" /\ trace[i].x = msg}
WaitReturns ==
  {i \in DOMAIN trace : trace[i].k = "return" /\ trace[i].a = "_WaitForUSBDevice"}
Said(ev) == \E i \in DOMAIN trace : trace[i] = ev

\* the failure texts that contain 'USB device not found'
UsbNotFoundTexts == {"USB device not found", "nvflash: USB device not found (again)"}
AllUsbNotFound(errs) == \A i \in DOMAIN errs : errs[i] \in UsbNotFoundTexts

BoardNotFound == "Could not find Exynos board on USB port"
StageNames == <<"bl1", "bl2", "u-boot">>
StageStalled ==
  <<"Stage 'bl1' did not complete", "Stage 'bl2' did not complete",
    "Stage 'u-boot' did not complete">>

----------------------------------------------------------------------------
(* C1 *)

\* What holds of the nvflash loop whether or not stdout is a terminal.
NvidiaLoopShape ==
  /\ Cardinality(RunsOf("nvflash")) <= 10
  /\ Cardinality(RunsOf("nvflash")) = Len(nv_errs) + (IF ok = "True" /\ method = "tegra" THEN 1 ELSE 0)
  \* a successful attempt is the last one and makes the function return True
  /\ \A i \in RunsOf("nvflash") :
       trace[i].r = "ok" =>
         /\ i = Max(RunsOf("nvflash"))
         /\ ok = "True"
         /\ trace[i + 2] = Return("_NvidiaFlashImage", "True")
  \* every attempt but the first comes right after the 1-second sleep
  /\ \A i \in RunsOf("nvflash") :
       i # Min(RunsOf("nvflash")) => trace[i - 1] = Sleep("1")
  /\ (ok = "True" /\ method = "tegra") =>
       trace[Max(RunsOf("nvflash"))].r = "ok"
  /\ ok = "False" => error \in {"none", "Image upload failed"}

\* C1 as stated: nvflash is invoked at most 10 times, True is returned at
\* the first successful attempt, and False is returned, without raising, only
\* after all 10 attempts have failed with 'USB device not found'.
C1_Original ==
  /\ NvidiaLoopShape
  /\ ok = "False" =>
       /\ Cardinality(RunsOf("nvflash")) = 10
       /\ AllUsbNotFound(nv_errs)

\* C1 (amended): when stdout is a terminal, a 'USB device not found' failure
\* is retried after a 1-second sleep while fewer than 10 attempts have been
\* made, nvflash is invoked at most 10 times, True is returned at the first
\* successful attempt and False only after 10 transient failures; when stdout
\* is not a terminal, the first failed attempt returns False with no retry.
C1_NvidiaRetry ==
  /\ NvidiaLoopShape
  /\ (ok = "False" /\ stdout_is_tty) =>
       /\ Cardinality(RunsOf("nvflash")) = 10
       /\ Len(nv_errs) = 10
       /\ AllUsbNotFound(nv_errs)
  /\ (ok = "False" /\ ~stdout_is_tty) =>
       /\ Cardinality(RunsOf("nvflash")) = 1
       /\ Len(nv_errs) = 1
  \* on a terminal the loop goes on after a transient failure
  /\ (stdout_is_tty /\ nv_errs # <<>> /\ AllUsbNotFound(nv_errs)
        /\ Len(nv_errs) < 10 /\ ok = "none") =>
       /\ pc = "nv_flash"
       /\ error = "none"
       /\ trace[Len(trace)] = Sleep("1")
  /\ ~stdout_is_tty => Len(nv_errs) <= 1

C1_Witness ==
  /\ stdout_is_tty
  /\ ok = "False"
  /\ Len(nv_errs) = 10
  /\ pc = "done"

----------------------------------------------------------------------------
(* C2 *)

\* C2 as stated: an nvflash failure without 'USB device not found' makes
\* _NvidiaFlashImage raise CmdError on that attempt, never return False,
\* and nvflash is not invoked again.
C2_Original ==
  \A i \in DOMAIN nv_errs :
    nv_errs[i] \notin UsbNotFoundTexts =>
      /\ i = Len(nv_errs)
      /\ Cardinality(RunsOf("nvflash")) = i
      /\ error = "nvflash failed"
      /\ ok = "none"

\* C2 (amended): when stdout is a terminal, an nvflash failure without
\* 'USB device not found' makes _NvidiaFlashImage raise CmdError on that
\* attempt, whichever attempt it is, and nvflash is not invoked again; when
\* stdout is not a terminal the same failure makes it return False instead,
\* and nvflash is not invoked again either.
C2_NvidiaFatal ==
  \A i \in DOMAIN nv_errs :
    nv_errs[i] \notin UsbNotFoundTexts =>
      /\ i = Len(nv_errs)
      /\ Cardinality(RunsOf("nvflash")) = i
      /\ trace[Max(RunsOf("nvflash"))].r = "fail"
      /\ IF stdout_is_tty THEN
           /\ error = "nvflash failed"
           /\ ok = "none"
           /\ pc = "done"
           /\ trace[Len(trace)] = Raise("CmdError", "nvflash failed")
           /\ Max(RunsOf("nvflash")) = Len(trace) - 1
         ELSE
           /\ ok = "False"
           /\ i = 1
           /\ error \in {"none", "Image upload failed"}

C2_Witness ==
  /\ stdout_is_tty
  /\ Len(nv_errs) = 10
  /\ nv_errs[10] \notin UsbNotFoundTexts
  /\ error = "nvflash failed"

----------------------------------------------------------------------------
(* C3 *)

IsProbeOrTransfer(e) == e.k = "run" /\ e.a \in {"lsusb", "smdk-usbdl"}
IsTransfer(e) == e.k = "run" /\ e.a = "smdk-usbdl"
Transfers == SelectSeq(trace, IsTransfer)

\* C3: on the Exynos path the stages are transferred in the order bl1, bl2,
\* u-boot; each transfer comes right after a 1-second sleep and after a probe
\* with timeout 4 that returned found since the previous transfer; after a
\* probe that timed out or a transfer that failed nothing more is probed or
\* transferred; True is returned only after the three transfers completed.
C3_ExynosStageOrder ==
  entry = "DoWriteFirmware" =>
    /\ Len(Transfers) <= 3
    /\ \A j \in DOMAIN Transfers :
         /\ Transfers[j].x = StageNames[j]
         /\ j < Len(Transfers) => Transfers[j].r = "ok"
    /\ \A i \in RunsOf("smdk-usbdl") :
         /\ trace[i - 1] = Sleep("1")
         /\ \E p \in WaitReturns :
              /\ p < i
              /\ trace[p] = Return("_WaitForUSBDevice", "True")
              /\ trace[p - 2] = Run("lsusb", "04e8:1234", "ok")
              /\ \A q \in (p + 1)..(i - 1) : ~IsProbeOrTransfer(trace[q])
    /\ w_caller = "exynos" => w_timeout = 4
    /\ \A i \in DOMAIN trace :
         (trace[i] = Return("_WaitForUSBDevice", "False")
            \/ trace[i] = Run("smdk-usbdl", trace[i].x, "fail")) =>
           \A q \in (i + 1)..Len(trace) : ~IsProbeOrTransfer(trace[q])
    /\ (method = "exynos" /\ ok = "True") =>
         /\ Len(Transfers) = 3
         /\ \A j \in 1..3 : Transfers[j] = Run("smdk-usbdl", StageNames[j], "ok")

C3_Witness ==
  /\ method = "exynos"
  /\ ok = "True"
  /\ pc = "done"
  /\ Len(Transfers) = 3

----------------------------------------------------------------------------
(* C4 *)

\* Once the reset has completed and the session is over, the release was
\* issued exactly once and no command was run after it.
ReleaseIsLast ==
  /\ Cardinality(Releases) <= 1
  /\ \A i \in Releases : Resets # {} /\ i = Max(AllRuns)
  /\ (pc \in {"done", "dw_result"}
        /\ Run("dut-control", "reset", "ok") \in {trace[i] : i \in Resets}) =>
       Cardinality(Releases) = 1

\* C4 as stated: the release is issued exactly once and last for every
\* outcome of the stage loop, and a session whose first-stage probe never
\* finds the device ends with the 'board not found' error.
C4_Original ==
  /\ ReleaseIsLast
  /\ (pc = "done" /\ Raised(BoardNotFound) # {}) =>
       /\ error = BoardNotFound
       /\ Cardinality(Releases) = 1

\* C4 (amended): the release is issued exactly once and last for every
\* outcome of the stage loop; a session whose first-stage probe never finds
\* the device has issued the release and ends with the 'board not found'
\* error when the release command succeeds, and with the release command's
\* own CmdError, which replaces it, when the release command fails.
C4_ExynosRelease ==
  /\ ReleaseIsLast
  /\ (pc = "done" /\ Raised(BoardNotFound) # {}) =>
       /\ Cardinality(Releases) = 1
       /\ Max(Releases) > Max(Raised(BoardNotFound))
       /\ IF trace[Max(Releases)].r = "ok"
          THEN error = BoardNotFound
          ELSE error = "dut-control failed"
  /\ (pc = "done" /\ pending # "none") =>
       /\ Cardinality(Releases) = 1
       /\ error = (IF trace[Max(Releases)].r = "ok" THEN pending
                   ELSE "dut-control failed")

C4_Witness ==
  /\ pc = "done"
  /\ error = BoardNotFound
  /\ Cardinality(Releases) = 1
  /\ Cardinality(RunsOf("lsusb")) = 8

----------------------------------------------------------------------------
(* C5 *)

\* the lsusb queries of the latest call of _WaitForUSBDevice
WaitStarts ==
  {i \in DOMAIN trace : trace[i] = Progress("Waiting for board to appear on USB bus")}
Queries == {i \in RunsOf("lsusb") : i > Max(WaitStarts)}

\* C5: _WaitForUSBDevice issues one lsusb query per cycle, returns True at
\* the first cycle whose query succeeds and issues no further query, returns
\* False after exactly timeout*2 failed cycles, and retries after every
\* failure of the query, whatever its text, without propagating it.
C5_WaitForUSBDevice ==
  w_caller # "none" =>
    /\ w_result = "found" =>
         /\ Queries # {}
         /\ Cardinality(Queries) <= w_timeout * 2
         /\ \A i \in Queries : trace[i].r = "ok" <=> i = Max(Queries)
         /\ trace[Max(Queries) + 2] = Return("_WaitForUSBDevice", "True")
         /\ last_lsusb = "ok"
    /\ w_result = "timeout" =>
         /\ Cardinality(Queries) = w_timeout * 2
         /\ \A i \in Queries : trace[i].r = "fail"
         /\ \E i \in WaitReturns :
              /\ i > Max(Queries \cup WaitStarts)
              /\ trace[i] = Return("_WaitForUSBDevice", "False")
    /\ w_result = "none" =>
         /\ pc = "wait"
         /\ Cardinality(Queries) < w_timeout * 2
         /\ \A i \in Queries : trace[i].r = "fail"
         /\ \A i \in WaitReturns : i < Max(WaitStarts)
    \* a failed query is followed by the half-second sleep, never by a raise
    /\ \A i \in RunsOf("lsusb") :
         trace[i].r = "fail" => trace[i + 1] = Sleep("0.5")
    /\ last_lsusb \notin {"ok", "none"} => w_tries = Cardinality(Queries)
    /\ entry = "_WaitForUSBDevice" => error = "none"
    /\ \A i \in DOMAIN trace :
         trace[i].k = "raise" => trace[i - 1] # Sleep("0.5") /\ trace[i - 1].a # "lsusb"

C5_Witness ==
  /\ entry = "_WaitForUSBDevice"
  /\ w_timeout = 3
  /\ w_result = "timeout"
  /\ last_lsusb = "lsusb: unable to initialize libusb"
  /\ Cardinality(Queries) = 6

----------------------------------------------------------------------------
(* C6 *)

\* the notices that report an nvflash failure
FailureNotices ==
  {i \in DOMAIN trace : trace[i].k = "notice" /\ trace[i].a \in NvflashErrors}

IsUsbNotFound(err) == err \in UsbNotFoundTexts
TransientErrs == SelectSeq(nv_errs, IsUsbNotFound)

\* the messages that differ from the one before them, the first included
Changes(errs) == {i \in DOMAIN errs : i = 1 \/ errs[i] # errs[i - 1]}
Distinct(errs) == {errs[i] : i \in DOMAIN errs}

\* C6 as stated: the number of failure notices equals the number of distinct
\* transient failure messages of the session.
C6_Original ==
  method = "tegra" =>
    Cardinality(FailureNotices) = Cardinality(Distinct(TransientErrs))

\* C6 (amended): when stdout is a terminal a transient failure message is
\* reported whenever it differs from the message of the failed attempt just
\* before it, so the number of failure notices equals the number of runs of
\* equal consecutive messages (a message that comes back after a different
\* one is reported again); when stdout is not a terminal no failure is
\* reported. Three failures with the same text followed by a success, on a
\* terminal, give exactly one notice and the result True.
C6_NoticePerChange ==
  method = "tegra" =>
    /\ stdout_is_tty =>
         /\ Cardinality(FailureNotices) = Cardinality(Changes(TransientErrs))
         /\ \A i \in FailureNotices :
              /\ trace[i - 1] = Run("nvflash", "flasher", "fail")
              /\ trace[i].a \in UsbNotFoundTexts
    /\ ~stdout_is_tty => FailureNotices = {}
    /\ (stdout_is_tty /\ ok = "True"
          /\ nv_errs = <<"USB device not found", "USB device not found",
                         "USB device not found">>) =>
         Cardinality(FailureNotices) = 1

C6_Witness ==
  /\ stdout_is_tty
  /\ ok = "True"
  /\ nv_errs = <<"USB device not found", "USB device not found",
                 "USB device not found">>
  /\ Cardinality(FailureNotices) = 1

----------------------------------------------------------------------------
(* C7 *)

\* the transfers made before place i of the trace
TransfersBefore(i) == {q \in RunsOf("smdk-usbdl") : q < i}

----------------------------------------------------------------------------
(* C8 *)

FlasherWritten == {i \in DOMAIN trace : trace[i] = WriteFile("flasher-for-image.bin")}
PrepareRaised ==
  {i \in DOMAIN trace : trace[i].k = "raise" /\ trace[i].a \in {"ValueError", "NameError"}}

\* C8: in every session the flasher file has been written before the first
\* hardware command (nvflash, dut-control, lsusb, smdk-usbdl) is issued, and
\* a session in which PrepareFlasher raises issues none of them.
C8_AssemblyBeforeHardware ==
  entry = "DoWriteFirmware" =>
    /\ HardwareRuns # {} =>
         /\ flasher
         /\ Cardinality(FlasherWritten) = 1
         /\ Max(FlasherWritten) < Min(HardwareRuns)
    /\ PrepareRaised # {} =>
         /\ HardwareRuns = {}
         /\ ~flasher
         /\ pc = "done"
    /\ (addr_len # 8 \/ matches # 1) => HardwareRuns = {}
    /\ pc \in {"nv_flash", "ex_reset"} => flasher

C8_Witness ==
  /\ method = "exynos"
  /\ flasher
  /\ RunsOf("smdk-usbdl") # {}
  /\ Max(FlasherWritten) < Min(HardwareRuns)

----------------------------------------------------------------------------
(* C9 *)

\* C9: dest 'usb' runs the one board path the flash method selects, or
\* raises 'Unknown flash method' with no command issued; dest 'sd' issues no
\* command, builds no image and raises nothing; any other dest raises
\* 'Unknown destination device' with no command issued.
C9_Dispatch ==
  entry = "DoWriteFirmware" =>
    /\ dest = "sd" =>
         /\ AllRuns = {}
         /\ ~flasher
         /\ error = "none"
         /\ \A i \in DOMAIN trace : trace[i].k # "raise"
         /\ pc \in {"start", "done"}
    /\ dest \notin {"usb", "sd"} =>
         /\ AllRuns = {}
         /\ ~flasher
         /\ pc \in {"start", "done"}
         /\ pc = "done" =>
              /\ error = "Unknown destination device"
              /\ trace = <<Raise("CmdError", "Unknown destination device")>>
    /\ (dest = "usb" /\ method \notin {"tegra", "exynos"}) =>
         /\ AllRuns = {}
         /\ ~flasher
         /\ pc \in {"start", "done"}
         /\ pc = "done" =>
              /\ error = "Unknown flash method"
              /\ trace = <<Raise("CmdError", "Unknown flash method")>>
    /\ (dest = "usb" /\ method = "tegra") =>
         /\ RunsOf("dut-control") \cup RunsOf("lsusb") \cup RunsOf("smdk-usbdl") = {}
         /\ pc \notin {"ex_reset", "ex_item", "wait", "ex_probed", "ex_finally"}
         /\ pc # "start" => pc = "nv_bct" \/ RunsOf("bct_dump") # {}
    /\ (dest = "usb" /\ method = "exynos") =>
         /\ RunsOf("nvflash") \cup RunsOf("bct_dump") = {}
         /\ pc \notin {"nv_bct", "nv_flash"}
         /\ pc # "start" => pc = "prepare" \/ flasher \/ PrepareRaised # {}

C9_Witness ==
  /\ dest = "sd"
  /\ pc = "done"
  /\ trace = <<Return("DoWriteFirmware", "None")>>

----------------------------------------------------------------------------
(* C10 *)

Uploaded == {i \in DOMAIN trace : trace[i] = Progress("Image uploaded")}

\* C10: for dest 'usb' an invocation ends either with the progress message
\* 'Image uploaded', only when the board path returned True, or with one
\* raised error; a False result becomes the CmdError 'Image upload failed',
\* and no session that ends with an error has emitted the success message.
C10_SuccessOrFatal ==
  (entry = "DoWriteFirmware" /\ dest = "usb") =>
    /\ Uploaded # {} => (ok = "True" /\ error = "none" /\ pc = "done")
    /\ Cardinality(Uploaded) <= 1
    /\ pc = "done" => (Uploaded # {}) # (error # "none")
    /\ (pc = "done" /\ ok = "True") => Uploaded # {}
    /\ (pc = "done" /\ ok = "False") =>
         /\ error = "Image upload failed"
         /\ trace[Len(trace)] = Raise("CmdError", "Image upload failed")
         /\ trace[Len(trace) - 1] = Return("_NvidiaFlashImage", "False")
    /\ error # "none" =>
         /\ pc = "done"
         /\ Uploaded = {}
         /\ trace[Len(trace)].k \in {"raise", "run"}
    /\ error = "Image upload failed" => ok = "False"

C10_Witness ==
  /\ pc = "done"
  /\ ok = "False"
  /\ error = "Image upload failed"
  /\ Len(nv_errs) = 10

----------------------------------------------------------------------------
(***************************************************************************)
(* The functions of write_firmware.py called on their own: RoundUp,        *)
(* _GetFlashScript and PrepareFlasher, each applied once to arguments      *)
(* drawn from bounded sets. call records the arguments and the result.     *)
(* Buffers (files, strings put into files) are sequences of byte values.   *)
(***************************************************************************)

\* The session variables while a function is called on its own.
Idle ==
  /\ entry = "call"
  /\ dest = "None"
  /\ method = "tegra"
  /\ stdout_is_tty = TRUE
  /\ addr_len = PlaceholderLen
  /\ matches = 1
  /\ timeout = 0
  /\ pc = "call"
  /\ trace = <<>>
  /\ boot_type = "none"
  /\ flasher = FALSE
  /\ tries = 0
  /\ last_err = "None"
  /\ nv_errs = <<>>
  /\ stage = 1
  /\ first = TRUE
  /\ pending = "none"
  /\ w_caller = "none"
  /\ w_timeout = 0
  /\ w_tries = 0
  /\ w_queries = 0
  /\ w_result = "none"
  /\ last_lsusb = "none"
  /\ ok = "none"
  /\ error = "none"

session == <<inputs, pc, trace, flasher, nvidia, exynos, wait, ok, error>>

\* Largest value RoundUp is applied to.
MaxValue == 8200

\* x & ~m on non-negative integers, bit by bit
RECURSIVE AndNot(_, _)
AndNot(x, m) ==
  IF x = 0 THEN 0
  ELSE (IF x % 2 = 1 /\ m % 2 = 0 THEN 1 ELSE 0) + 2 * AndNot(x \div 2, m \div 2)

\* return (value + boundary - 1) & ~(boundary - 1)
MutRoundUp(value, boundary) == AndNot(value + boundary, boundary - 1)
RoundUp(value, boundary) == AndNot(value + boundary - 1, boundary - 1)

\* the page sizes _GetFlashScript rounds to
PageSizes == {512, 4096}

CallRoundUp ==
  /\ call = NoCall
  /\ \E value \in 0..MaxValue, boundary \in PageSizes :
       call' = [fn |-> "RoundUp", value |-> value, boundary |-> boundary,
                result |-> RoundUp(value, boundary)]
  /\ UNCHANGED <<session, dirs, locks, procs>>

----------------------------------------------------------------------------
(* Rendering numbers: Python's %x, %#x, %08x and %#08x, as ASCII bytes *)

HexChar(d) == IF d < 10 THEN 48 + d ELSE 87 + d

RECURSIVE HexDigits(_)
HexDigits(n) ==
  IF n < 16 THEN <<HexChar(n)>>
  ELSE Append(HexDigits(n \div 16), HexChar(n % 16))

RECURSIVE PadLeft(_, _)
PadLeft(str, width) ==
  IF Len(str) >= width THEN str ELSE PadLeft(<<48>> \o str, width)

\* An integer too wide for one machine word of the checker is kept as two
\* halves: its value is hi * 65536 + lo, less 2^32 when neg is set
\* (a negative 32-bit number in two's complement).
Wide(hi, lo) == [neg |-> FALSE, hi |-> hi, lo |-> lo]
W(n) == Wide(n \div 65536, n % 65536)
WAdd(w, n) ==
  [neg |-> w.neg, hi |-> w.hi + ((w.lo + n) \div 65536), lo |-> (w.lo + n) % 65536]
WHexDigits(w) ==
  IF w.hi = 0 THEN HexDigits(w.lo)
  ELSE HexDigits(w.hi) \o PadLeft(HexDigits(w.lo), 4)

\* '%#x' % n
FmtHashX(n) == <<48, 120>> \o HexDigits(n)
\* '%08x' % w
Fmt08x(w) == PadLeft(WHexDigits(w), 8)
\* '%#08x' % w: the width counts the 0x
FmtHash08x(w) == <<48, 120>> \o PadLeft(WHexDigits(w), 6)

----------------------------------------------------------------------------
(* _GetFlashScript *)

\* replace_me = 'zsHEXYla'
ReplaceMe == <<122, 115, 72, 69, 88, 89, 108, 97>>

\* One command of the script: its text, with %s where a value was
\* substituted, and the bytes substituted.
Cmd(text, arg) == [cmd |-> text, arg |-> arg]
Plain(text) == [cmd |-> text, arg |-> <<>>]

\* page_size = 4096; if boot_type == 'sdmmc': page_size = 512
PageSize(type) == IF type = "sdmmc" THEN 512 ELSE 4096

\* if boot_type != 'spi': update = False
MutEffectiveUpdate(update, type) == update
EffectiveUpdate(update, type) == IF type # "spi" THEN FALSE ELSE update

DeviceCmds(type, bus) ==
  IF type = "nand" THEN
    << Plain("setenv _init   \"echo Init NAND;  nand info\""),
       Plain("setenv _erase  \"echo Erase NAND; nand erase            0 ${length}\""),
       Plain("setenv _write  \"echo Write NAND; nand write ${address} 0 ${length}\""),
       Plain("setenv _read   \"echo Read NAND;  nand read  ${address} 0 ${length}\"") >>
  ELSE IF type = "sdmmc" THEN
    << Plain("setenv _init   \"echo Init EMMC;  mmc rescan            0\""),
       Plain("setenv _erase  \"echo Erase EMMC; \""),
       Plain("setenv _write  \"echo Write EMMC; mmc write 0 ${address} 0 ${blocks} boot1\""),
       Plain("setenv _read   \"echo Read EMMC;  mmc read 0 ${address} 0 ${blocks} boot1\"") >>
  ELSE
    << Cmd("setenv _init   \"echo Init SPI;   sf probe            %s\"", bus),
       Plain("setenv _erase  \"echo Erase SPI;  sf erase            0 ${length}\""),
       Plain("setenv _write  \"echo Write SPI;  sf write ${address} 0 ${length}\""),
       Plain("setenv _read   \"echo Read SPI;   sf read  ${address} 0 ${length}\""),
       Plain("setenv _update \"echo Update SPI; sf update ${address} 0 ${length}\"") >>

\* The commands appended for the verify flag.
MutVerifyCmds(verify) ==
  IF verify THEN <<Plain("run _clear"), Plain("run _read"), Plain("run _crc")>>
  ELSE <<Plain("run _clear"), Plain("echo Skipping verify")>>
VerifyCmds(verify) ==
  IF verify THEN <<Plain("run _clear"), Plain("run _read"), Plain("run _crc")>>
  ELSE <<Plain("echo Skipping verify")>>

\* The list cmds, which the function joins with '; '.
GetFlashScript(payload_size, update, verify, type, checksum, bus) ==
  LET page_size == PageSize(type)
      upd == EffectiveUpdate(update, type)
  IN  << Cmd("setenv address       0x%s", ReplaceMe),
         Cmd("setenv firmware_size %s", FmtHashX(payload_size)),
         Cmd("setenv length        %s", FmtHashX(RoundUp(payload_size, page_size))),
         Cmd("setenv blocks   %s",
             FmtHashX(RoundUp(payload_size, page_size) \div page_size)),
         Cmd("setenv _crc    \"crc32 -v ${address} ${firmware_size} %s\"",
             FmtHash08x(checksum)),
         Plain("setenv _clear  \"echo Clearing RAM; mw.b     ${address} 0 ${length}\"") >>
      \o DeviceCmds(type, bus)
      \o << Plain("echo Firmware loaded to ${address}, size ${firmware_size}, length ${length}"),
            Plain("if run _crc; then"),
            Plain("run _init") >>
      \o (IF upd THEN <<Plain("time run _update")>>
          ELSE <<Plain("run _erase"), Plain("run _write")>>)
      \o VerifyCmds(verify)
      \o << Plain("else"),
            Plain("echo"),
            Plain("echo \"** Checksum error on load: please check download tool **\""),
            Plain("fi") >>

\* Arguments the functions are applied to.
ScriptBootTypes == {"nand", "sdmmc", "spi", "Spi"}
PayloadSizes == {0, 1, 511, 512, 513, 4095, 4096, 4097, 1000000}
Checksums == {W(0), W(26), Wide(57005, 48879), Wide(65535, 65535)}
Buses == {<<48>>, <<49, 58, 48>>}

CallGetFlashScript ==
  /\ call = NoCall
  /\ \E size \in PayloadSizes, update \in BOOLEAN, verify \in BOOLEAN,
        type \in ScriptBootTypes, checksum \in Checksums, bus \in Buses :
       call' = [fn |-> "_GetFlashScript", payload_size |-> size,
                update |-> update, verify |-> verify, boot_type |-> type,
                checksum |-> checksum, bus |-> bus,
                script |-> GetFlashScript(size, update, verify, type, checksum, bus),
                replace_me |-> ReplaceMe]
  /\ UNCHANGED <<session, dirs, locks, procs>>

----------------------------------------------------------------------------
(* The checksum: binascii.crc32(payload_data) & 0xffffffff *)

RECURSIVE Xor(_, _)
Xor(a, b) ==
  IF a = 0 THEN b
  ELSE IF b = 0 THEN a
  ELSE (((a % 2) + (b % 2)) % 2) + 2 * Xor(a \div 2, b \div 2)

\* one bit of the reflected CRC-32, polynomial 0xEDB88320, on the two halves
\* of the register
ShiftRight(c) == [hi |-> c.hi \div 2, lo |-> (c.lo \div 2) + 32768 * (c.hi % 2)]
CrcShift(c) ==
  IF c.lo % 2 = 1
  THEN [hi |-> Xor(ShiftRight(c).hi, 60856), lo |-> Xor(ShiftRight(c).lo, 33568)]
  ELSE ShiftRight(c)
CrcByte(c, byte) ==
  CrcShift(CrcShift(CrcShift(CrcShift(
    CrcShift(CrcShift(CrcShift(CrcShift([hi |-> c.hi, lo |-> Xor(c.lo, byte)]))))))))

RECURSIVE CrcBytes(_, _, _)
CrcBytes(c, data, i) ==
  IF i > Len(data) THEN c ELSE CrcBytes(CrcByte(c, data[i]), data, i + 1)

\* binascii.crc32 of Python 2 gives a signed 32-bit integer
BinasciiCrc32(data) ==
  LET c == CrcBytes([hi |-> 65535, lo |-> 65535], data, 1)
      hi == Xor(c.hi, 65535)
      lo == Xor(c.lo, 65535)
  IN  [neg |-> hi >= 32768, hi |-> hi, lo |-> lo]

\* checksum = binascii.crc32(payload_data) & 0xffffffff
MutChecksum(payload_data) == BinasciiCrc32(payload_data)
Checksum(payload_data) ==
  Wide(BinasciiCrc32(payload_data).hi, BinasciiCrc32(payload_data).lo)

----------------------------------------------------------------------------
(* PrepareFlasher, byte by byte *)

\* alignment = 0x1000
Alignment == 4096

\* payload_offset = (payload_offset + alignment - 1) & ~(alignment - 1)
MutAlignOffset(n) == AndNot(n, Alignment - 1)
AlignOffset(n) == AndNot(n + Alignment - 1, Alignment - 1)

\* new_str = '%08x' % load_address
MutNewStr(text_base, payload_offset) == Fmt08x(text_base)
NewStr(text_base, payload_offset) == Fmt08x(WAdd(text_base, payload_offset))

\* re.findall(replace_me, fdt_data): the matches, left to right, none
\* overlapping another; this is how many there are
RECURSIVE FindAll(_, _, _)
FindAll(pat, data, i) ==
  IF i + Len(pat) - 1 > Len(data) THEN 0
  ELSE IF SubSeq(data, i, i + Len(pat) - 1) = pat
       THEN 1 + FindAll(pat, data, i + Len(pat))
       ELSE FindAll(pat, data, i + 1)

\* re.sub(replace_me, new_str, fdt_data)
RECURSIVE ReSub(_, _, _, _)
ReSub(pat, repl, data, i) ==
  IF i > Len(data) THEN <<>>
  ELSE IF i + Len(pat) - 1 <= Len(data) /\ SubSeq(data, i, i + Len(pat) - 1) = pat
       THEN repl \o ReSub(pat, repl, data, i + Len(pat))
       ELSE <<data[i]>> \o ReSub(pat, repl, data, i + 1)

\* "\0" * n
Zeros(n) == [i \in 1..n |-> 0]

\* The outcome of the two checks before the substitution. The first compares
\* the two lengths with 'is not', which on these small integers is #. The
\* second, when it fails, builds its message from the name matches, which
\* the function never defines.
MutPrepareCheck(new_str, fdt_data) ==
  IF FindAll(ReplaceMe, fdt_data, 1) # 1 THEN "NameError"
  ELSE "ok"
PrepareCheck(new_str, fdt_data) ==
  IF Len(ReplaceMe) # Len(new_str) THEN "ValueError"
  ELSE IF FindAll(ReplaceMe, fdt_data, 1) # 1 THEN "NameError"
  ELSE "ok"

\* data += fdt_data; data += "\0" * (payload_offset - len(data));
\* data += payload_data
MutAssemble(data, fdt_data, payload_offset, payload_data) ==
  data \o fdt_data \o Zeros(payload_offset - Len(data)) \o payload_data
Assemble(data, fdt_data, payload_offset, payload_data) ==
  LET d1 == data \o fdt_data
      d2 == d1 \o Zeros(payload_offset - Len(d1))
  IN  d2 \o payload_data

\* The whole function: what it computes, whether it writes the flasher
\* file, and the exception it ends with, if any.
PrepareFlasherResult(data, fdt_in, payload_data, text_base, update, verify, type, bus) ==
  LET checksum == Checksum(payload_data)
      script == GetFlashScript(Len(payload_data), update, verify, type, checksum, bus)
      payload_offset == AlignOffset(Len(data) + Len(fdt_in))
      new_str == NewStr(text_base, payload_offset)
      check == PrepareCheck(new_str, fdt_in)
      fdt_data == ReSub(ReplaceMe, new_str, fdt_in, 1)
  IN  [ status |-> check,
        checksum |-> checksum,
        script |-> script,
        payload_offset |-> payload_offset,
        new_str |-> new_str,
        fdt_data |-> IF check = "ok" THEN fdt_data ELSE fdt_in,
        written |-> check = "ok",
        image |-> IF check = "ok"
                  THEN Assemble(data, fdt_data, payload_offset, payload_data)
                  ELSE <<>>,
        notice |-> IF check = "ok" THEN Fmt08x(checksum) ELSE <<>> ]

\* Files the function is given.
Uboot(n) == [i \in 1..n |-> 1 + (i % 250)]
UbootSizes == {0, 5, 4072, 4076, 4080, 4084, 4088, 4096, 4100}
FdtHeader == <<208, 13, 254, 237>>
FdtDatas ==
  { FdtHeader \o <<48, 120>> \o ReplaceMe \o <<59, 0>>,
    FdtHeader \o <<48, 120>> \o ReplaceMe \o <<59, 32, 48, 120, 49, 48, 0, 0, 0, 0>>,
    FdtHeader \o SubSeq(ReplaceMe, 1, 7) \o <<0>> \o ReplaceMe,
    ReplaceMe,
    FdtHeader \o <<59, 0>>,
    <<>>,
    FdtHeader \o ReplaceMe \o <<0>> \o ReplaceMe,
    ReplaceMe \o ReplaceMe \o ReplaceMe }
Payloads ==
  { <<>>, <<0>>, <<97>>, <<49, 50, 51, 52, 53, 54, 55, 56, 57>>,
    <<0, 0, 0, 0>>, <<255, 1>> }
TextBases == {W(0), Wide(224, 32768), Wide(65535, 57344), Wide(65535, 61440)}

CallPrepareFlasher ==
  /\ call = NoCall
  /\ \E n \in UbootSizes, fdt_data \in FdtDatas, payload_data \in Payloads,
        text_base \in TextBases, update \in BOOLEAN, type \in {"spi", "sdmmc"} :
       call' = [fn |-> "PrepareFlasher", uboot |-> Uboot(n),
                fdt_data |-> fdt_data, payload |-> payload_data,
                text_base |-> text_base, update |-> update, verify |-> FALSE,
                boot_type |-> type,
                out |-> PrepareFlasherResult(Uboot(n), fdt_data, payload_data,
                          text_base, update, FALSE, type, <<48>>)]
  /\ UNCHANGED <<session, dirs, locks, procs>>

----------------------------------------------------------------------------
(* What a session hands to PrepareFlasher and to the download tool *)

\* '%#x' % n for a wide number
WFmtHashX(w) == <<48, 120>> \o WHexDigits(w)

\* DevType[0] of the BCT file, and .lower() of the name matched in it
BctDevTypes == {"Nand", "Sdmmc", "Spi"}
Lower(name) ==
  IF name = "Nand" THEN "nand" ELSE IF name = "Sdmmc" THEN "sdmmc" ELSE "spi"

\* DoWriteFirmware's text_base argument: None, or a number
NoTextBase == [given |-> FALSE, value |-> W(0)]
TextBaseArg(w) == [given |-> TRUE, value |-> w]

\* write.text_base: the fdt's textbase unless the argument is given and not 0
SessionTextBase(fdt_text_base, arg) ==
  IF arg.given /\ arg.value # W(0) THEN arg.value ELSE fdt_text_base

\* the address of the 'u-boot' entry of download_list: 0x43e00000
ExynosUbootAddress == Wide(17376, 0)

\* _NvidiaFlashImage up to the arguments of nvflash
NvidiaFlashImage(uboot, fdt_data, payload_data, text_base, update, verify, dev_type) ==
  [ boot_type |-> Lower(dev_type),
    out |-> PrepareFlasherResult(uboot, fdt_data, payload_data, text_base,
                                 update, verify, Lower(dev_type), <<48>>),
    load_arg |-> WFmtHashX(text_base) ]

\* _ExynosFlashImage up to the arguments of smdk-usbdl for the flasher
ExynosFlashImage(uboot, fdt_data, payload_data, text_base, update, verify) ==
  [ boot_type |-> "Spi",
    out |-> PrepareFlasherResult(uboot, fdt_data, payload_data, text_base,
                                 update, verify, "Spi", <<49, 58, 48>>),
    load_arg |-> WFmtHashX(ExynosUbootAddress) ]

SessionUbootSizes == {5, 4088}
SessionFdtData == FdtHeader \o <<48, 120>> \o ReplaceMe \o <<59, 0>>
SessionPayload == <<255, 1>>
FdtTextBases == {Wide(224, 32768), ExynosUbootAddress}
TextBaseArgs == {NoTextBase, TextBaseArg(W(0)), TextBaseArg(Wide(16400, 0))}

CallFlashImage ==
  /\ call = NoCall
  /\ \E m \in {"tegra", "exynos"}, n \in SessionUbootSizes,
        fdt_text_base \in FdtTextBases, arg \in TextBaseArgs,
        update \in BOOLEAN, verify \in BOOLEAN, dev_type \in BctDevTypes :
       \E uboot \in {Uboot(n)}, fdt_data \in {SessionFdtData},
          payload_data \in {SessionPayload},
          text_base \in {SessionTextBase(fdt_text_base, arg)} :
         \E res \in {IF m = "tegra"
                     THEN NvidiaFlashImage(uboot, fdt_data, payload_data,
                                           text_base, update, verify, dev_type)
                     ELSE ExynosFlashImage(uboot, fdt_data, payload_data,
                                           text_base, update, verify)} :
           /\ m = "exynos" => dev_type = "Spi"
           /\ call' = [fn |-> "FlashImage", method |-> m, dev_type |-> dev_type,
                       fdt_text_base |-> fdt_text_base, arg |-> arg,
                       text_base |-> text_base, update |-> update,
                       verify |-> verify, boot_type |-> res.boot_type,
                       script |-> res.out.script, out |-> res.out,
                       load_arg |-> res.load_arg]
  /\ UNCHANGED <<session, dirs, locks, procs>>

----------------------------------------------------------------------------
(* The functions of write_firmware.py applied on their own *)

InitFlasher == InitAux /\ Idle

NextFlasher ==
  \/ CallRoundUp
  \/ CallGetFlashScript
  \/ CallPrepareFlasher
  \/ CallFlashImage

SpecFlasher == InitFlasher /\ [][NextFlasher]_vars

----------------------------------------------------------------------------
(* Reading a call of PrepareFlasher *)

IsPrepare == call.fn = "PrepareFlasher"
Succeeded == IsPrepare /\ call.out.status = "ok"

\* the places where the placeholder stands in a buffer
Occurrences(buf) ==
  {i \in 1..Len(buf) : i + 7 <= Len(buf) /\ SubSeq(buf, i, i + 7) = ReplaceMe}

\* the value of a string of hexadecimal digits
HexDigitVal(b) == IF b <= 57 THEN b - 48 ELSE b - 87
RECURSIVE HexVal(_)
HexVal(str) ==
  IF str = <<>> THEN 0
  ELSE 16 * HexVal(SubSeq(str, 1, Len(str) - 1)) + HexDigitVal(str[Len(str)])
ParseWide(str) ==
  IF Len(str) <= 4 THEN Wide(0, HexVal(str))
  ELSE Wide(HexVal(SubSeq(str, 1, Len(str) - 4)),
            HexVal(SubSeq(str, Len(str) - 3, Len(str))))
IsHexString(str) ==
  \A i \in DOMAIN str : str[i] \in 48..57 \/ str[i] \in 97..102

\* text_base + payload_offset of the call, as a wide number
LoadAddress ==
  Wide(call.text_base.hi + ((call.text_base.lo + call.out.payload_offset) \div 65536),
       (call.text_base.lo + call.out.payload_offset) % 65536)

----------------------------------------------------------------------------
(* C11 *)

\* C11: whenever PrepareFlasher succeeds the written image is the bootloader,
\* then the configuration bytes, then zero bytes, then the payload; the
\* payload starts at the smallest multiple of 4096 that is >= len(bootloader)
\* + len(configuration bytes), the padding is all zero and shorter than 4096,
\* the total length is payload_offset + len(payload), and the len(payload)
\* bytes at payload_offset are the payload.
C11_ImageLayout ==
  Succeeded =>
    LET boot == call.uboot
        cfg == call.out.fdt_data
        pay == call.payload
        off == call.out.payload_offset
        img == call.out.image
        head == Len(boot) + Len(cfg)
    IN  /\ call.out.written
        /\ Len(cfg) = Len(call.fdt_data)
        /\ off % 4096 = 0
        /\ off >= head
        /\ off - head < 4096
        /\ Len(img) = off + Len(pay)
        /\ SubSeq(img, 1, Len(boot)) = boot
        /\ SubSeq(img, Len(boot) + 1, head) = cfg
        /\ \A i \in (head + 1)..off : img[i] = 0
        /\ SubSeq(img, off + 1, off + Len(pay)) = pay

C11_Witness ==
  /\ Succeeded
  /\ call.out.payload_offset = 8192
  /\ Len(call.uboot) = 4088
  /\ Len(call.payload) = 9
  /\ Len(call.out.image) = 8201

----------------------------------------------------------------------------
(* C12 *)

\* C12: when PrepareFlasher succeeds the substitution leaves the length of
\* the configuration bytes unchanged, the configuration section of the image
\* holds no occurrence of the placeholder, and what stands in its place is
\* the 8-hex-digit rendering of text_base + payload_offset.
C12_Substitution ==
  Succeeded =>
    LET before == call.fdt_data
        after == call.out.fdt_data
        at == CHOOSE i \in Occurrences(before) : TRUE
        img == call.out.image
        n == Len(call.uboot)
    IN  /\ Cardinality(Occurrences(before)) = 1
        /\ Len(after) = Len(before)
        /\ Occurrences(after) = {}
        /\ Occurrences(SubSeq(img, n + 1, n + Len(before))) = {}
        /\ \A i \in 1..Len(before) : i \notin at..(at + 7) => after[i] = before[i]
        /\ SubSeq(after, at, at + 7) = call.out.new_str
        /\ SubSeq(img, n + at, n + at + 7) = call.out.new_str
        /\ Len(call.out.new_str) = 8
        /\ IsHexString(call.out.new_str)
        /\ ParseWide(call.out.new_str) = LoadAddress
        /\ call.out.payload_offset % 4096 = 0
        /\ call.out.payload_offset >= n + Len(after)

C12_Witness ==
  /\ Succeeded
  /\ call.text_base = Wide(224, 32768)
  /\ call.out.payload_offset = 4096
  /\ call.out.new_str = <<48, 48, 101, 48, 57, 48, 48, 48>>

----------------------------------------------------------------------------
(* C13 *)

\* C13: whenever the placeholder occurs in the configuration bytes a number
\* of times other than one, PrepareFlasher raises the ValueError 'Internal
\* error: replacement string ...', writes no flasher image and substitutes
\* nothing.
C13_PlaceholderCount ==
  (IsPrepare /\ Cardinality(Occurrences(call.fdt_data)) # 1) =>
    /\ call.out.status = "ValueError"
    /\ ~call.out.written
    /\ call.out.image = <<>>
    /\ call.out.fdt_data = call.fdt_data

\* the placeholder stands twice in the configuration bytes, the address has
\* the right width, and the error raised is not a ValueError
C13_Failing ==
  /\ IsPrepare
  /\ Cardinality(Occurrences(call.fdt_data)) = 2
  /\ Len(call.out.new_str) = 8
  /\ call.out.status = "NameError"
  /\ ~call.out.written

----------------------------------------------------------------------------
(* C14 *)

\* C14: the rendered load address has exactly 8 characters whenever
\* 0 <= text_base + payload_offset < 2^32; when the sum is 2^32 or more the
\* rendering is longer, PrepareFlasher raises ValueError before substituting
\* and writes no image; a written image never carries an address of another
\* width than the placeholder.
C14_AddressWidth ==
  IsPrepare =>
    /\ LoadAddress.hi < 65536 => Len(call.out.new_str) = 8
    /\ LoadAddress.hi >= 65536 =>
         /\ Len(call.out.new_str) > 8
         /\ call.out.status = "ValueError"
         /\ ~call.out.written
         /\ call.out.image = <<>>
         /\ call.out.fdt_data = call.fdt_data
    /\ call.out.written =>
         /\ Len(call.out.new_str) = 8
         /\ LoadAddress.hi < 65536
         /\ ParseWide(call.out.new_str) = LoadAddress

C14_Witness ==
  /\ IsPrepare
  /\ call.text_base = Wide(65535, 61440)
  /\ call.out.payload_offset = 4096
  /\ call.out.new_str = <<49, 48, 48, 48, 48, 48, 48, 48, 48>>
  /\ call.out.status = "ValueError"
  /\ Cardinality(Occurrences(call.fdt_data)) = 1

----------------------------------------------------------------------------
(* C15 *)

\* the script of the latest call of _GetFlashScript or PrepareFlasher
HasScript == call.fn \in {"_GetFlashScript", "PrepareFlasher"}
TheScript == IF IsPrepare THEN call.out.script ELSE call.script
Places(text) == {i \in DOMAIN TheScript : TheScript[i].cmd = text}
ErasePlusWrite ==
  /\ Cardinality(Places("run _erase")) = 1
  /\ Cardinality(Places("run _write")) = 1
  /\ \A i \in Places("run _erase") : i + 1 \in Places("run _write")
UpdateOnly ==
  /\ Cardinality(Places("time run _update")) = 1
  /\ Places("run _erase") = {}
  /\ Places("run _write") = {}

\* C15: for 'spi' with update=true the script has 'time run _update' and
\* neither 'run _erase' nor 'run _write'; for 'nand' and 'sdmmc' the update
\* flag is forced false and the script has 'run _erase' followed by
\* 'run _write' and never the update command; for 'spi' with update=false
\* it has the erase+write pair; every script has exactly one of the two.
C15_WritePath ==
  HasScript =>
    /\ (call.boot_type = "spi" /\ call.update) => UpdateOnly
    /\ (call.boot_type = "spi" /\ ~call.update) => ErasePlusWrite
    /\ call.boot_type \in {"nand", "sdmmc"} =>
         /\ ErasePlusWrite
         /\ Places("time run _update") = {}
         /\ Places("run _update") = {}
    /\ UpdateOnly # ErasePlusWrite
    /\ Places("time run _update") = {} <=> ErasePlusWrite
    /\ \A i \in Places("run _erase") \cup Places("time run _update") :
         TheScript[i - 1] = Plain("run _init")

C15_Witness ==
  /\ call.fn = "_GetFlashScript"
  /\ call.boot_type = "nand"
  /\ call.update
  /\ ErasePlusWrite

----------------------------------------------------------------------------
(* C16 *)

\* C16: RoundUp(value, boundary) is the smallest multiple of boundary that
\* is >= value, for boundary 512 and 4096 and every value >= 0: the result
\* less value lies in [0, boundary) and a multiple is left as it is; the
\* same holds of payload_offset in PrepareFlasher, with boundary 4096.
C16_RoundUp ==
  /\ call.fn = "RoundUp" =>
       /\ call.boundary \in {512, 4096}
       /\ call.result % call.boundary = 0
       /\ call.result >= call.value
       /\ call.result - call.value < call.boundary
       /\ call.value % call.boundary = 0 => call.result = call.value
  /\ IsPrepare =>
       LET n == Len(call.uboot) + Len(call.fdt_data) IN
       /\ call.out.payload_offset % 4096 = 0
       /\ call.out.payload_offset >= n
       /\ call.out.payload_offset - n < 4096
       /\ n % 4096 = 0 => call.out.payload_offset = n

C16_Witness ==
  /\ call.fn = "RoundUp"
  /\ call.value = 4097
  /\ call.boundary = 512
  /\ call.result = 4608

----------------------------------------------------------------------------
(* C17 *)

\* CRC-32 of the payloads, computed outside the model
KnownCrc(payload_data) ==
  IF payload_data = <<>> THEN Wide(0, 0)
  ELSE IF payload_data = <<0>> THEN Wide(53762, 61325)
  ELSE IF payload_data = <<97>> THEN Wide(59575, 48707)
  ELSE IF payload_data = <<49, 50, 51, 52, 53, 54, 55, 56, 57>> THEN Wide(52212, 14630)
  ELSE IF payload_data = <<0, 0, 0, 0>> THEN Wide(8516, 57116)
  ELSE Wide(42490, 57115)

CrcText == "setenv _crc    \"crc32 -v ${address} ${firmware_size} %s\""
SizeText == "setenv firmware_size %s"

\* C17: the checksum is the CRC-32 of the payload bytes alone, lies in
\* [0, 2^32), is the value written in the script's 'crc32 -v' command and in
\* the 'Payload checksum' notice, and the script's firmware_size is the
\* number of payload bytes placed in the image.
C17_Checksum ==
  IsPrepare =>
    LET sum == call.out.checksum IN
    /\ ~sum.neg
    /\ sum.hi \in 0..65535
    /\ sum.lo \in 0..65535
    /\ sum = KnownCrc(call.payload)
    /\ Cardinality(Places(CrcText)) = 1
    /\ \A i \in Places(CrcText) :
         /\ SubSeq(TheScript[i].arg, 1, 2) = <<48, 120>>
         /\ IsHexString(SubSeq(TheScript[i].arg, 3, Len(TheScript[i].arg)))
         /\ ParseWide(SubSeq(TheScript[i].arg, 3, Len(TheScript[i].arg))) = sum
    /\ Cardinality(Places(SizeText)) = 1
    /\ \A i \in Places(SizeText) :
         /\ SubSeq(TheScript[i].arg, 1, 2) = <<48, 120>>
         /\ HexVal(SubSeq(TheScript[i].arg, 3, Len(TheScript[i].arg))) = Len(call.payload)
    /\ call.out.written =>
         /\ Len(call.out.notice) = 8
         /\ IsHexString(call.out.notice)
         /\ ParseWide(call.out.notice) = sum
         /\ Len(call.out.image) - call.out.payload_offset = Len(call.payload)

C17_Witness ==
  /\ Succeeded
  /\ call.payload = <<49, 50, 51, 52, 53, 54, 55, 56, 57>>
  /\ call.out.checksum = Wide(52212, 14630)
  /\ call.out.notice = <<99, 98, 102, 52, 51, 57, 50, 54>>

----------------------------------------------------------------------------
(* common_util: paths.  A path is the sequence of its character codes. *)

Slash == 47
Dot == 46

\* the components of a path, split at '/'
RECURSIVE SplitPath(_, _)
SplitPath(path, piece) ==
  IF path = <<>> THEN <<piece>>
  ELSE IF Head(path) = Slash THEN <<piece>> \o SplitPath(Tail(path), <<>>)
  ELSE SplitPath(Tail(path), Append(piece, Head(path)))

RECURSIVE JoinPath(_)
JoinPath(comps) ==
  IF comps = <<>> THEN <<>>
  ELSE <<Slash>> \o Head(comps) \o JoinPath(Tail(comps))

\* the symbolic links of the file system: '/l' -> '/s', '/s/out' -> '/o',
\* '/s/in' -> '/s/a', '/o/back' -> '/s/a'
Links ==
  {[from |-> <<<<108>>>>, to |-> <<<<115>>>>],
   [from |-> <<<<115>>, <<111, 117, 116>>>>, to |-> <<<<111>>>>],
   [from |-> <<<<115>>, <<105, 110>>>>, to |-> <<<<115>>, <<97>>>>],
   [from |-> <<<<111>>, <<98, 97, 99, 107>>>>, to |-> <<<<115>>, <<97>>>>]}

Follow(comps) ==
  IF \E l \in Links : l.from = comps
  THEN (CHOOSE l \in Links : l.from = comps).to
  ELSE comps

\* os.path.realpath of an absolute path, as components
RECURSIVE Resolve(_, _)
Resolve(stack, rest) ==
  IF rest = <<>> THEN stack
  ELSE IF Head(rest) = <<>> \/ Head(rest) = <<Dot>> THEN Resolve(stack, Tail(rest))
  ELSE IF Head(rest) = <<Dot, Dot>>
       THEN Resolve(IF stack = <<>> THEN stack
                    ELSE SubSeq(stack, 1, Len(stack) - 1), Tail(rest))
  ELSE Resolve(Follow(Append(stack, Head(rest))), Tail(rest))

RealComps(path) == Resolve(<<>>, SplitPath(path, <<>>))
RealPath(path) ==
  IF RealComps(path) = <<>> THEN <<Slash>> ELSE JoinPath(RealComps(path))

\* str.startswith
StartsWith(str, prefix) ==
  Len(str) >= Len(prefix) /\ SubSeq(str, 1, Len(prefix)) = prefix

\* os.path.join(a, b)
OsPathJoin(a, b) ==
  IF b # <<>> /\ Head(b) = Slash THEN b
  ELSE IF a = <<>> \/ a[Len(a)] = Slash THEN a \o b
  ELSE a \o <<Slash>> \o b

MutSafeSandboxAccess(static_dir, path) ==
  StartsWith(RealPath(path), RealPath(static_dir))
SafeSandboxAccess(static_dir, path) ==
  /\ StartsWith(RealPath(path), RealPath(static_dir))
  /\ RealPath(path) # RealPath(static_dir)

\* '/s' '/s/' '/l' '/s/a'
StaticDirs == {<<47, 115>>, <<47, 115, 47>>, <<47, 108>>, <<47, 115, 47, 97>>}
SandboxPaths ==
  \* '/' '/s' '/s/a' '/s/a/b' '/s/a/' '/s/..' '/s/../o'
  {<<47>>, <<47, 115>>, <<47, 115, 47, 97>>, <<47, 115, 47, 97, 47, 98>>, <<47, 115, 47, 97, 47>>, <<47, 115, 47, 46, 46>>, <<47, 115, 47, 46, 46, 47, 111>>,
   \* '/s/a/../../o/x' '/s/a/../b' '/s2' '/s2/x' '/s/out'
   <<47, 115, 47, 97, 47, 46, 46, 47, 46, 46, 47, 111, 47, 120>>, <<47, 115, 47, 97, 47, 46, 46, 47, 98>>, <<47, 115, 50>>, <<47, 115, 50, 47, 120>>, <<47, 115, 47, 111, 117, 116>>,
   \* '/s/out/x' '/s/in' '/s/in/b' '/o/back' '/o/back/b' '/o'
   <<47, 115, 47, 111, 117, 116, 47, 120>>, <<47, 115, 47, 105, 110>>, <<47, 115, 47, 105, 110, 47, 98>>, <<47, 111, 47, 98, 97, 99, 107>>, <<47, 111, 47, 98, 97, 99, 107, 47, 98>>, <<47, 111>>,
   \* '/s/ab' '/l/a'
   <<47, 115, 47, 97, 98>>, <<47, 108, 47, 97>>}

CallSafeSandboxAccess ==
  /\ call = NoCall
  /\ \E static_dir \in StaticDirs, path \in SandboxPaths :
       call' = [fn |-> "SafeSandboxAccess", static_dir |-> static_dir,
                path |-> path,
                result |-> SafeSandboxAccess(static_dir, path)]
  /\ UNCHANGED <<session, dirs, locks, procs>>


----------------------------------------------------------------------------
(* common_util: AcquireLock and ReleaseLock.  dirs is the set of directories
   that exist and locks the set of directories that hold a lock file, each
   named by its resolved path.
   lockfile.FileLock is taken by the interface the code relies on:
   acquire(timeout=0) raises AlreadyLocked when the lock file exists and
   creates it otherwise, break_lock() removes it. *)

\* '/s'
LockStaticDir == <<47, 115>>
\* 'a' 'b' 'a/b' '' '../o' '/o' '../s2'
Tags == {<<97>>, <<98>>, <<97, 47, 98>>, <<>>, <<46, 46, 47, 111>>, <<47, 111>>,
         <<46, 46, 47, 115, 50>>}

\* failures of the file system: os.makedirs raising an OSError other than
\* EEXIST, lock.acquire raising an exception other than AlreadyLocked
Faults == {"none", "makedirs", "lock"}

\* the names between the slashes of a path
IsName(piece) == piece # <<>>
Names(path) == SelectSeq(SplitPath(path, <<>>), IsName)

\* os.makedirs(path): path and every missing directory named on the way to
\* it, each where it resolves to; the root is there already
MakeDirs(path) ==
  {RealPath(JoinPath(SubSeq(Names(path), 1, k))) : k \in 1..Len(Names(path))}
    \ {<<Slash>>}

\* shutil.rmtree(path): what is left of a set of paths
RmTree(path, paths) ==
  {d \in paths : d # path /\ ~StartsWith(d, path \o <<Slash>>)}

\* EEXIST from os.makedirs is an error when create_once is set
MutRaisesOnExisting(create_once) == FALSE
RaisesOnExisting(create_once) == create_once

Outcome(status, result, d, l) ==
  [status |-> status, result |-> result, dirs |-> d, locks |-> l]

AcquireLockResult(tag, create_once, fault) ==
  LET build_dir == OsPathJoin(LockStaticDir, tag)
      real_dir == RealPath(build_dir)
      exists == real_dir \in dirs
      is_created == ~exists
      made == dirs \cup MakeDirs(build_dir)
  IN  IF ~SafeSandboxAccess(LockStaticDir, build_dir)
      THEN Outcome("CommonUtilError", <<>>, dirs, locks)
      ELSE IF exists /\ RaisesOnExisting(create_once)
      THEN Outcome("CommonUtilError", <<>>, dirs, locks)
      ELSE IF ~exists /\ fault = "makedirs"
      THEN Outcome("OSError", <<>>, dirs, locks)
      ELSE IF fault = "lock"
      THEN Outcome("LockFailed", <<>>,
                   IF is_created THEN RmTree(real_dir, made) ELSE made, locks)
      ELSE IF real_dir \in locks
      THEN Outcome("CommonUtilError", <<>>, made, locks)
      ELSE Outcome("ok", build_dir, made, locks \cup {real_dir})

AcquireLock ==
  /\ \E tag \in Tags, create_once \in BOOLEAN, fault \in Faults :
       LET build_dir == OsPathJoin(LockStaticDir, tag)
           out == AcquireLockResult(tag, create_once, fault)
       IN  /\ call' = [fn |-> "AcquireLock", tag |-> tag,
                       create_once |-> create_once, fault |-> fault,
                       build_dir |-> build_dir,
                       existed |-> RealPath(build_dir) \in dirs,
                       was_locked |-> RealPath(build_dir) \in locks,
                       dirs_before |-> dirs, locks_before |-> locks,
                       status |-> out.status, result |-> out.result]
           /\ dirs' = out.dirs
           /\ locks' = out.locks
  /\ UNCHANGED <<session, procs>>

ReleaseLockResult(tag, destroy) ==
  LET build_dir == OsPathJoin(LockStaticDir, tag)
      real_dir == RealPath(build_dir)
      broken == locks \ {real_dir}
  IN  IF ~SafeSandboxAccess(LockStaticDir, build_dir)
      THEN Outcome("CommonUtilError", <<>>, dirs, locks)
      ELSE IF ~destroy
      THEN Outcome("ok", <<>>, dirs, broken)
      ELSE IF real_dir \notin dirs
      THEN Outcome("CommonUtilError", <<>>, dirs, broken)
      ELSE Outcome("ok", <<>>, RmTree(real_dir, dirs), RmTree(real_dir, broken))

ReleaseLock ==
  /\ \E tag \in Tags, destroy \in BOOLEAN :
       LET build_dir == OsPathJoin(LockStaticDir, tag)
           out == ReleaseLockResult(tag, destroy)
       IN  /\ call' = [fn |-> "ReleaseLock", tag |-> tag, destroy |-> destroy,
                       build_dir |-> build_dir,
                       existed |-> RealPath(build_dir) \in dirs,
                       was_locked |-> RealPath(build_dir) \in locks,
                       dirs_before |-> dirs, locks_before |-> locks,
                       status |-> out.status, result |-> out.result]
           /\ dirs' = out.dirs
           /\ locks' = out.locks
  /\ UNCHANGED <<session, procs>>


----------------------------------------------------------------------------
(* common_util: GetLatestBuildVersion.  distutils.version.LooseVersion
   splits a name into runs of digits, runs of lower-case letters and the
   text between them, drops the dots, and reads the runs of digits as
   numbers; Python 2 orders a number before any string. *)

CharClass(c) ==
  IF c \in 48..57 THEN "digit"
  ELSE IF c \in 97..122 THEN "lower"
  ELSE IF c = Dot THEN "dot"
  ELSE "other"

RECURSIVE DecVal(_)
DecVal(str) ==
  IF str = <<>> THEN 0
  ELSE 10 * DecVal(SubSeq(str, 1, Len(str) - 1)) + (str[Len(str)] - 48)

Component(piece, class) ==
  IF class = "digit" THEN [num |-> TRUE, n |-> DecVal(piece), s |-> <<>>]
  ELSE [num |-> FALSE, n |-> 0, s |-> piece]

Emit(piece, class) ==
  IF piece = <<>> \/ class = "dot" THEN <<>> ELSE <<Component(piece, class)>>

RECURSIVE Pieces(_, _, _)
Pieces(str, piece, class) ==
  IF str = <<>> THEN Emit(piece, class)
  ELSE IF CharClass(Head(str)) = class /\ class # "dot"
       THEN Pieces(Tail(str), Append(piece, Head(str)), class)
       ELSE Emit(piece, class) \o Pieces(Tail(str), <<Head(str)>>, CharClass(Head(str)))

\* LooseVersion(vstring).version
LooseVersion(vstring) == Pieces(vstring, <<>>, "dot")

Sign(a, b) == IF a < b THEN -1 ELSE IF a > b THEN 1 ELSE 0

RECURSIVE CmpStr(_, _)
CmpStr(a, b) ==
  IF a = <<>> \/ b = <<>> THEN Sign(Len(a), Len(b))
  ELSE IF Head(a) # Head(b) THEN Sign(Head(a), Head(b))
  ELSE CmpStr(Tail(a), Tail(b))

CmpComponent(a, b) ==
  IF a.num /\ b.num THEN Sign(a.n, b.n)
  ELSE IF a.num THEN -1
  ELSE IF b.num THEN 1
  ELSE CmpStr(a.s, b.s)

\* LooseVersion.__cmp__: cmp of the two lists of components
RECURSIVE CmpVersion(_, _)
CmpVersion(a, b) ==
  IF a = <<>> \/ b = <<>> THEN Sign(Len(a), Len(b))
  ELSE IF CmpComponent(Head(a), Head(b)) # 0 THEN CmpComponent(Head(a), Head(b))
  ELSE CmpVersion(Tail(a), Tail(b))

\* max(builds): the first of the greatest
RECURSIVE MutMaxBuild(_)
MutMaxBuild(builds) ==
  IF Len(builds) = 1 THEN builds[1]
  ELSE LET m == MutMaxBuild(SubSeq(builds, 1, Len(builds) - 1))
           x == builds[Len(builds)]
       IN  IF CmpVersion(LooseVersion(x), LooseVersion(m)) < 0 THEN x ELSE m
RECURSIVE MaxBuild(_)
MaxBuild(builds) ==
  IF Len(builds) = 1 THEN builds[1]
  ELSE LET m == MaxBuild(SubSeq(builds, 1, Len(builds) - 1))
           x == builds[Len(builds)]
       IN  IF CmpVersion(LooseVersion(x), LooseVersion(m)) > 0 THEN x ELSE m

\* str.upper
Upper(str) == [i \in DOMAIN str |-> IF str[i] \in 97..122 THEN str[i] - 32 ELSE str[i]]

\* sub in str
Contains(sub, str) ==
  \E i \in 1..(Len(str) + 1) :
    i + Len(sub) - 1 <= Len(str) /\ SubSeq(str, i, i + Len(sub) - 1) = sub

RECURSIVE Filter(_, _)
Filter(milestone, builds) ==
  IF builds = <<>> THEN <<>>
  ELSE (IF Contains(Upper(milestone), Head(builds)) THEN <<Head(builds)>> ELSE <<>>)
       \o Filter(milestone, Tail(builds))

\* milestone=None is [given |-> FALSE], a string is [given |-> TRUE]
NoMilestone == [given |-> FALSE, text |-> <<>>]
Milestone(text) == [given |-> TRUE, text |-> text]

GetLatestBuildVersion(is_dir, listing, milestone) ==
  LET builds == IF milestone.given /\ milestone.text # <<>> /\ listing # <<>>
                THEN Filter(milestone.text, listing)
                ELSE listing
  IN  IF ~is_dir THEN [status |-> "CommonUtilError", result |-> <<>>]
      ELSE IF builds = <<>> THEN [status |-> "CommonUtilError", result |-> <<>>]
      ELSE [status |-> "ok", result |-> MaxBuild(builds)]

BuildNames ==
  \* 'R17-1413.0.0-a1-b1346'
  {<<82, 49, 55, 45, 49, 52, 49, 51, 46, 48, 46, 48, 45, 97, 49, 45, 98, 49, 51, 52, 54>>,
   \* 'R17-18.0.0-a1-b1346'
   <<82, 49, 55, 45, 49, 56, 46, 48, 46, 48, 45, 97, 49, 45, 98, 49, 51, 52, 54>>,
   \* 'R16-2241.0.0-a0-b2'
   <<82, 49, 54, 45, 50, 50, 52, 49, 46, 48, 46, 48, 45, 97, 48, 45, 98, 50>>,
   \* 'R17-2.0.0-a1-b1346'
   <<82, 49, 55, 45, 50, 46, 48, 46, 48, 45, 97, 49, 45, 98, 49, 51, 52, 54>>,
   \* 'R16-2241.0.0-a0-b02'
   <<82, 49, 54, 45, 50, 50, 52, 49, 46, 48, 46, 48, 45, 97, 48, 45, 98, 48, 50>>}

\* Most entries a target directory holds.
MaxBuilds == 3

\* os.listdir gives the entries in any order
Listings ==
  {l \in UNION {[1..n -> BuildNames] : n \in 0..MaxBuilds} :
     \A i, j \in DOMAIN l : i # j => l[i] # l[j]}

Milestones ==
  \* '' 'r16' 'R17'
  {NoMilestone, Milestone(<<>>), Milestone(<<114, 49, 54>>), Milestone(<<82, 49, 55>>),
   \* 'R18'
   Milestone(<<82, 49, 56>>)}

CallGetLatestBuildVersion ==
  /\ call = NoCall
  /\ \E is_dir \in BOOLEAN, listing \in Listings, milestone \in Milestones :
       /\ ~is_dir => listing = <<>>
       /\ call' = [fn |-> "GetLatestBuildVersion", is_dir |-> is_dir,
                   listing |-> listing, milestone |-> milestone,
                   out |-> GetLatestBuildVersion(is_dir, listing, milestone)]
  /\ UNCHANGED <<session, dirs, locks, procs>>

----------------------------------------------------------------------------
(* common_util: one caller taking and releasing locks, in any order *)

InitUtil == InitAux /\ Idle

NextUtil ==
  \/ AcquireLock
  \/ ReleaseLock

SpecUtil == InitUtil /\ [][NextUtil]_vars

(* common_util: the functions that change nothing, applied once *)

InitLookup == InitAux /\ Idle

NextLookup ==
  \/ CallSafeSandboxAccess
  \/ CallGetLatestBuildVersion

SpecLookup == InitLookup /\ [][NextLookup]_vars


----------------------------------------------------------------------------
(* C18 *)

\* a strict descendant in the directory tree: the components of the
\* resolved directory are a proper prefix of those of the resolved path
InTree(static_dir, path) ==
  LET d == RealComps(static_dir)
      p == RealComps(path)
  IN  Len(p) > Len(d) /\ SubSeq(p, 1, Len(d)) = d

----------------------------------------------------------------------------
(* C19 *)

\* C19: SafeSandboxAccess(static_dir, path) is True if and only if the
\* resolved path is a strict descendant of the resolved static_dir in the
\* directory tree; in particular it is False for a sibling directory whose
\* name begins with the name of static_dir.
C19_SandboxIffDescendant ==
  call.fn = "SafeSandboxAccess" =>
    (call.result <=> InTree(call.static_dir, call.path))

\* a sibling of static_dir whose name begins with the name of static_dir
C19_Failing ==
  /\ call.fn = "SafeSandboxAccess"
  \* '/s'
  /\ call.static_dir = <<47, 115>>
  \* '/s2/x'
  /\ call.path = <<47, 115, 50, 47, 120>>
  /\ ~InTree(call.static_dir, call.path)
  /\ call.result

----------------------------------------------------------------------------
(* C20 *)

Entries == {call.listing[i] : i \in DOMAIN call.listing}
Filtering == call.milestone.given /\ call.milestone.text # <<>>
Candidates ==
  {e \in Entries : Filtering => Contains(Upper(call.milestone.text), e)}

----------------------------------------------------------------------------
(* C22 *)

ThenAt == CHOOSE k \in Places("if run _crc; then") : TRUE
PathLen == IF TheScript[ThenAt + 2] = Plain("time run _update") THEN 1 ELSE 2
TailAt == ThenAt + 2 + PathLen
TailLen == IF call.verify THEN 3 ELSE 1
ElseAt == TailAt + TailLen
TransferCmds ==
  {"run _init", "run _erase", "run _write", "time run _update", "run _update",
   "run _clear", "run _read"}

\* C22: in every script of _GetFlashScript the order is 'if run _crc; then',
\* 'run _init', the write path, the verify tail, 'else', the checksum-error
\* message, 'fi'; no init, erase, write or update command stands outside
\* the then-branch; with verify the tail is 'run _clear', 'run _read',
\* 'run _crc' and 'Skipping verify' is absent, without verify the tail is
\* 'echo Skipping verify' alone.
C22_ScriptOrder ==
  HasScript =>
    /\ Cardinality(Places("if run _crc; then")) = 1
    /\ TheScript[ThenAt + 1] = Plain("run _init")
    /\ \/ TheScript[ThenAt + 2] = Plain("time run _update")
       \/ /\ TheScript[ThenAt + 2] = Plain("run _erase")
          /\ TheScript[ThenAt + 3] = Plain("run _write")
    /\ call.verify =>
         /\ TheScript[TailAt] = Plain("run _clear")
         /\ TheScript[TailAt + 1] = Plain("run _read")
         /\ TheScript[TailAt + 2] = Plain("run _crc")
         /\ Places("echo Skipping verify") = {}
    /\ ~call.verify =>
         /\ TheScript[TailAt] = Plain("echo Skipping verify")
         /\ Places("run _clear") = {}
         /\ Places("run _read") = {}
         /\ Places("run _crc") = {}
    /\ TheScript[ElseAt] = Plain("else")
    /\ TheScript[ElseAt + 1] = Plain("echo")
    /\ TheScript[ElseAt + 2] =
         Plain("echo \"** Checksum error on load: please check download tool **\"")
    /\ TheScript[ElseAt + 3] = Plain("fi")
    /\ Len(TheScript) = ElseAt + 3
    /\ \A i \in DOMAIN TheScript :
         (i < ThenAt \/ i >= ElseAt) => TheScript[i].cmd \notin TransferCmds
    /\ \A i \in DOMAIN TheScript :
         TheScript[i].cmd \in {"else", "fi"} => i >= ElseAt

C22_Witness ==
  /\ call.fn = "_GetFlashScript"
  /\ call.boot_type = "sdmmc"
  /\ call.verify
  /\ TheScript[TailAt + 2] = Plain("run _crc")
  /\ TheScript[Len(TheScript)] = Plain("fi")

----------------------------------------------------------------------------
(* C21 *)

IsFlashImage == call.fn = "FlashImage"

\* C21: on the Exynos path, whose boot device is SPI flash, a session with
\* update=True gets a script that takes the update path ('time run _update',
\* no 'run _erase' nor 'run _write'), as on the Nvidia path with an SPI boot
\* device; with update=False both paths get the erase+write pair.
C21_ExynosUpdatePath ==
  (/\ IsFlashImage
   /\ \/ call.method = "exynos"
      \/ call.method = "tegra" /\ call.dev_type = "Spi") =>
    /\ call.update => UpdateOnly
    /\ ~call.update => ErasePlusWrite

\* an Exynos session with update=True whose script erases and writes
C21_Failing ==
  /\ IsFlashImage
  /\ call.method = "exynos"
  /\ call.update
  /\ ErasePlusWrite
  /\ Places("time run _update") = {}

----------------------------------------------------------------------------
(* C23 *)

\* the address the download tool is told to load the flasher image at
LoadedAt == ParseWide(SubSeq(call.load_arg, 3, Len(call.load_arg)))

\* C23: on both board paths the address put in the boot script is the
\* address the flasher image is loaded at on the target plus
\* payload_offset, for every text_base, also one given to DoWriteFirmware.
C23_ScriptAddress ==
  (IsFlashImage /\ call.out.status = "ok") =>
    /\ SubSeq(call.load_arg, 1, 2) = <<48, 120>>
    /\ ParseWide(call.out.new_str) = WAdd(LoadedAt, call.out.payload_offset)

\* an Exynos session whose text_base is not the download address of the
\* 'u-boot' stage
C23_Failing ==
  /\ IsFlashImage
  /\ call.method = "exynos"
  /\ call.out.status = "ok"
  /\ call.text_base = Wide(224, 32768)
  /\ LoadedAt = Wide(17376, 0)
  /\ call.out.payload_offset = 4096
  /\ ParseWide(call.out.new_str) = Wide(224, 36864)

----------------------------------------------------------------------------
(* C24 *)

SleepsOf(secs) == {i \in DOMAIN trace : trace[i] = Sleep(secs)}
\* the queries of the probe that starts at place s of the trace
QueriesOf(s) ==
  {i \in RunsOf("lsusb") : i > s /\ \A t \in WaitStarts : t > s => i < t}
ProbeTimeouts ==
  {i \in DOMAIN trace : trace[i] = Return("_WaitForUSBDevice", "False")}
Finished == pc = "done"

C24_Bounded ==
  entry = "DoWriteFirmware" =>
    /\ Cardinality(RunsOf("nvflash")) <= 10
    /\ RunsOf("nvflash") # {} =>
         /\ Cardinality(SleepsOf("1")) <= 10
         /\ Cardinality(SleepsOf("1")) <= Cardinality(RunsOf("nvflash"))
         /\ RunsOf("lsusb") = {}
    /\ Cardinality(WaitStarts) <= 3
    /\ \A s \in WaitStarts : Cardinality(QueriesOf(s)) <= 8
    /\ Cardinality(RunsOf("lsusb")) <= 24
    /\ Cardinality(RunsOf("smdk-usbdl")) <= 3
    \* ten failed attempts: no further command or sleep, and the session fails
    /\ (/\ Cardinality(RunsOf("nvflash")) = 10
        /\ trace[Max(RunsOf("nvflash"))].r # "ok") =>
         /\ \A j \in DOMAIN trace :
              j > Max(RunsOf("nvflash")) =>
                /\ trace[j].k # "run"
                /\ trace[j].k = "sleep" => SleepsOf("1") \cap (j + 1)..Len(trace) = {}
         /\ Finished => (ok # "True" /\ error # "none")
    \* a probe that times out: only the release of the control lines follows
    /\ \A i \in ProbeTimeouts :
         /\ \A j \in DOMAIN trace :
              j > i =>
                /\ trace[j].k # "sleep"
                /\ trace[j].k = "run" => j \in Releases
                /\ trace[j] # Progress("Waiting for board to appear on USB bus")
         /\ Finished => error # "none"

\* C24: every flashing session terminates when the external commands
\* return: at most 10 nvflash commands and 10 one-second sleeps on the
\* Nvidia path, at most 3 probes of at most 8 lsusb cycles each and at most
\* 3 transfers on the Exynos path, and exhausting a bound leads to a
\* terminal failure (False result or fatal error), never to another wait.
C24_Terminates == []C24_Bounded /\ <>Finished

C24_Witness ==
  /\ Finished
  /\ method = "exynos"
  /\ Cardinality(WaitStarts) = 3
  /\ Cardinality(RunsOf("lsusb")) = 23
  /\ Cardinality(RunsOf("smdk-usbdl")) = 2
  /\ ProbeTimeouts # {}
  /\ error = "Stage 'u-boot' did not complete"

----------------------------------------------------------------------------
(* common_util: AcquireLock and ReleaseLock called by several processes on
   one tag.  Each call of the file system or of the lock file is one step,
   so the calls of different processes interleave between them.  The file
   system does not fail here: the only errors are the ones the other
   processes cause.  procs[p].holds is what the caller knows: AcquireLock
   has returned the directory to it and it has not called ReleaseLock
   since. *)

\* 'a'
SharedTag == <<97>>
\* build_dir = os.path.join(static_dir, tag)
SharedDir == OsPathJoin(LockStaticDir, SharedTag)

At(p, where) == [procs EXCEPT ![p].at = where]
Returned(p, holds) ==
  [procs EXCEPT ![p] = [at |-> "idle", is_created |-> FALSE, holds |-> holds]]

\* AcquireLock up to os.makedirs(build_dir)
AcquireMakeDirs ==
  \E p \in Procs, create_once \in BOOLEAN :
    /\ procs[p].at = "idle"
    /\ SafeSandboxAccess(LockStaticDir, SharedDir)
    /\ IF SharedDir \notin dirs THEN
         /\ dirs' = dirs \cup MakeDirs(SharedDir)
         /\ procs' = [At(p, "acquire") EXCEPT ![p].is_created = TRUE]
       ELSE IF RaisesOnExisting(create_once) THEN
         \* EEXIST: CommonUtilError
         /\ UNCHANGED <<dirs, procs>>
       ELSE
         /\ procs' = At(p, "acquire")
         /\ UNCHANGED dirs
    /\ UNCHANGED <<session, call, locks>>

\* AcquireLock from lock.acquire(timeout=0) to its end
AcquireLockFile ==
  \E p \in Procs :
    /\ procs[p].at = "acquire"
    /\ IF SharedDir \notin dirs THEN
         \* the directory is gone: lock.acquire fails otherwise than with
         \* AlreadyLocked, and there is nothing left for rmtree
         /\ procs' = Returned(p, procs[p].holds)
         /\ UNCHANGED locks
       ELSE IF SharedDir \in locks THEN
         \* AlreadyLocked: CommonUtilError
         /\ procs' = Returned(p, procs[p].holds)
         /\ UNCHANGED locks
       ELSE
         /\ locks' = locks \cup {SharedDir}
         /\ procs' = Returned(p, TRUE)
    /\ UNCHANGED <<session, call, dirs>>

\* ReleaseLock, by a process that holds the lock, up to lock.break_lock()
ReleaseBreakLock ==
  \E p \in Procs, destroy \in BOOLEAN :
    /\ procs[p].at = "idle"
    /\ procs[p].holds
    /\ SafeSandboxAccess(LockStaticDir, SharedDir)
    /\ locks' = locks \ {SharedDir}
    /\ procs' = IF destroy THEN [At(p, "rmtree") EXCEPT ![p].holds = FALSE]
                ELSE Returned(p, FALSE)
    /\ UNCHANGED <<session, call, dirs>>

\* ReleaseLock with destroy: shutil.rmtree(build_dir)
ReleaseRmTree ==
  \E p \in Procs :
    /\ procs[p].at = "rmtree"
    \* a directory that is gone already gives CommonUtilError
    /\ dirs' = RmTree(SharedDir, dirs)
    /\ locks' = RmTree(SharedDir, locks)
    /\ procs' = Returned(p, FALSE)
    /\ UNCHANGED <<session, call>>

InitLocks == InitAux /\ Idle

NextLocks ==
  \/ AcquireMakeDirs
  \/ AcquireLockFile
  \/ ReleaseBreakLock
  \/ ReleaseRmTree

SpecLocks == InitLocks /\ [][NextLocks]_vars

----------------------------------------------------------------------------
(* C25 *)

Holders == {p \in Procs : procs[p].holds}
\* ReleaseLock entered and not yet completed
Releasing == {p \in Procs : procs[p].at = "rmtree"}

\* C25: under any interleaving of AcquireLock and ReleaseLock calls of
\* several processes on one tag, each releasing only a lock it acquired, at
\* most one process holds the lock: no AcquireLock succeeds between another
\* process's successful AcquireLock and its completed ReleaseLock, and the
\* lock file and the directory of a holder are not removed by another
\* process's release.
C25_MutualExclusion ==
  /\ Cardinality(Holders) <= 1
  /\ \A p \in Holders : Releasing \ {p} = {}
  /\ \A p \in Holders : SharedDir \in dirs /\ SharedDir \in locks

\* two processes hold the lock of the tag at once
C25_Failing ==
  \E p, q \in Procs :
    /\ p # q
    /\ procs[p].holds
    /\ procs[q].holds
    /\ procs[p].at = "idle"
    /\ procs[q].at = "idle"

----------------------------------------------------------------------------
(* C26 *)

IsAcquire == call.fn = "AcquireLock"
IsRelease == call.fn = "ReleaseLock"
Untouched == dirs = call.dirs_before /\ locks = call.locks_before
TagDir == RealPath(call.build_dir)

\* C26: a failed AcquireLock leaves the tag as it found it: a tag that
\* escapes the sandbox, an existing directory with create_once=True and a
\* tag that is locked already leave the directory and the lock unchanged,
\* and when locking fails for another reason the directory is removed if
\* and only if this call created it; AcquireLock and ReleaseLock reject a
\* tag that resolves outside static_dir, or to static_dir itself, with
\* CommonUtilError before creating, locking, unlocking or deleting anything.
C26_FailureFrame ==
  /\ IsAcquire =>
       /\ ~SafeSandboxAccess(LockStaticDir, call.build_dir) =>
            call.status = "CommonUtilError" /\ Untouched
       /\ (call.existed /\ call.create_once) =>
            call.status = "CommonUtilError" /\ Untouched
       /\ (call.was_locked /\ call.fault # "lock") =>
            call.status = "CommonUtilError" /\ Untouched
       /\ (/\ SafeSandboxAccess(LockStaticDir, call.build_dir)
           /\ call.fault = "lock"
           /\ ~(call.existed /\ call.create_once)) =>
            /\ call.status = "LockFailed"
            /\ locks = call.locks_before
            /\ TagDir \in dirs <=> call.existed
  /\ (IsAcquire \/ IsRelease) =>
       (~InTree(LockStaticDir, call.build_dir) =>
          call.status = "CommonUtilError" /\ Untouched)

\* a tag that resolves to a sibling of static_dir is accepted and its
\* directory is created and locked: '../s2' under '/s' is '/s2'
C26_Failing ==
  /\ IsAcquire
  /\ call.tag = <<46, 46, 47, 115, 50>>
  /\ ~InTree(LockStaticDir, call.build_dir)
  /\ call.status = "ok"
  /\ <<47, 115, 50>> \notin call.dirs_before
  /\ <<47, 115, 50>> \in dirs
  /\ <<47, 115, 50>> \in locks

====
